---- MODULE Spec2Model ----
(***************************************************************************)
(* PraBorrow: the Sovereign<T> jurisdiction guard of praborrow-core        *)
(* (crates/praborrow-core/src/sovereign.rs, traits.rs).                    *)
(*                                                                         *)
(* A guard owns one value (inner) and one Jurisdiction (meta) behind a     *)
(* std::sync::RwLock.  Callers on any number of threads call deref (read), *)
(* deref_mut (write), reclaim, grant_lease and try_hire; the clock         *)
(* (Instant::now) advances independently.  ensure_domestic, reclaim and    *)
(* grant_lease each run wholly inside one critical section of the guard's  *)
(* RwLock and uuid_pseudo is one atomic fetch_add, so every call is one    *)
(* step, taken at the moment it holds the lock, and a behaviour is an      *)
(* interleaving of the calls of all threads.  What outlives the critical   *)
(* section is the reference deref hands out: refs counts the live ones.    *)
(* Durations are small: Instant::now() + duration is always representable. *)
(*                                                                         *)
(* The wait-for graph (praborrow::lease::deadlock::WaitForGraph) is used   *)
(* by examples/distributed_bank.rs; its operations are modelled from the   *)
(* design document, section 4.3.  Each component has its own               *)
(* specification, in which the variables of the other components rest.     *)
(*                                                                         *)
(* SpecLock looks inside the calls: a thread enters a call, waits for the  *)
(* RwLock of the guard, runs the body under it and returns.                *)
(***************************************************************************)
EXTENDS Integers, Sequences, FiniteSets, TLC

\* ---------------------------------------------------------------- bounds
MaxTime == 2
MaxDur == 1
MaxGrants == 3
MaxRefs == 1
MaxEdges == 4
MaxLaws == 3
MaxLogs == 8
MaxOver == 2

Peers == {1, 2}
Values == {0, 1}
Durations == 0..MaxDur
Holders == {1, 2}
Resources == {100, 200}
NodeIds == Holders \cup Resources
Threads == {1, 2, 3}
Slots == {1, 2}

VARIABLES
  inner,    \* inner[g]: the protected value (UnsafeCell<T>)
  meta,     \* meta[g]: the Jurisdiction behind the RwLock
  COUNT,    \* the static AtomicU64 of uuid_pseudo
  now,      \* Instant::now()
  refs,     \* refs[g]: number of live &T obtained from deref on guard g
  last,     \* the most recently completed call and what it returned
  issued,   \* the (guard, LeaseId, Epoch) of every successful grant, in order
  graph,    \* the WaitForGraph: nodes in insertion order, each with the
            \* nodes it waits on in insertion order
  lk,       \* lk[g]: the RwLock around meta[g]: its writer (0: none) and
            \* its readers
  pc,       \* pc[t]: where thread t is in the call it is making
  mutex,    \* the Mutex around the WaitForGraph: its holder (0: none)
  cargo,    \* cargo[s]: what the binding s of a logistics caller holds
  run,      \* the publish run of xtask: its crates, layers and progress
  xtask,    \* the xtask command under way: its flags, step and effects
  app       \* the dashboard of prb-cli: its App and the state of its loop

vars ==
  <<inner, meta, COUNT, now, refs, last, issued, graph, lk, pc, mutex,
    cargo, run, xtask, app>>

\* ------------------------------------------------------------ data model
\* enum Jurisdiction
Domestic == [kind |-> "Domestic"]

Foreign(holder, lease_id, epoch, expires_at) ==
  [kind |-> "Foreign", holder |-> holder, lease_id |-> lease_id,
   epoch |-> epoch, expires_at |-> expires_at]

\* new that stores T's default in place of the argument.
NewDefault(value) == [inner |-> 0, meta |-> Domestic]

\* Sovereign::new
New(value) == [inner |-> value, meta |-> Domestic]

\* The two panic messages of ensure_domestic.
MsgLeased == "SOVEREIGNTY VIOLATION: Resource leased to Peer {holder} until {expires_at}"

MsgExpired == "SOVEREIGNTY VIOLATION: Resource lease expired but not reclaimed."

\* The () that reclaim returns.
Unit == [unit |-> TRUE]

\* The Err of grant_lease.
MsgAlreadyLeased == "Resource already leased"

\* ------------------------------------------------------- pure operations
\* ensure_domestic as it would be if an expired lease counted as Domestic
\* (the alternative the comments of ensure_domestic weigh and reject).
EnsureDomesticLazy(m, t_now) ==
  IF m.kind = "Domestic" \/ t_now >= m.expires_at
  THEN [panic |-> FALSE]
  ELSE [panic |-> TRUE, msg |-> MsgLeased,
        holder |-> m.holder, expires_at |-> m.expires_at]

\* Sovereign::ensure_domestic under the read lock: returns normally when the
\* jurisdiction is Domestic, panics otherwise; the first panic formats holder
\* and expires_at into its message, the second formats nothing.
EnsureDomestic(m, t_now) ==
  IF m.kind = "Domestic"
  THEN [panic |-> FALSE]
  ELSE IF t_now < m.expires_at
       THEN [panic |-> TRUE, msg |-> MsgLeased,
             holder |-> m.holder, expires_at |-> m.expires_at]
       ELSE [panic |-> TRUE, msg |-> MsgExpired]

\* Deref::deref: the check, then the shared reference to the value.
Deref(m, v, t_now) ==
  LET e == EnsureDomestic(m, t_now)
  IN IF e.panic THEN e ELSE [panic |-> FALSE, value |-> v]

\* reclaim without the expiry test.
ReclaimEarly(m, t_now) == Domestic

\* reclaim that treats a Domestic guard like a lease to fence off.
ReclaimFence(m, t_now) ==
  IF m.kind = "Domestic"
  THEN Foreign(0, 0, 0, t_now)
  ELSE IF t_now >= m.expires_at THEN Domestic ELSE m

\* reclaim with > for >=.
ReclaimStrict(m, t_now) ==
  IF m.kind = "Domestic"
  THEN m
  ELSE IF t_now > m.expires_at THEN Domestic ELSE m

\* Sovereign::reclaim under the write lock: the new jurisdiction.  The
\* function returns () on every path.
Reclaim(m, t_now) ==
  IF m.kind = "Domestic"
  THEN m
  ELSE IF t_now >= m.expires_at THEN Domestic ELSE m

\* uuid_pseudo with a load in place of the fetch_add.
UuidPseudoLoad(count) == [id |-> count, count |-> count]

\* uuid_pseudo: COUNT.fetch_add(1) as u128.  fetch_add returns the previous
\* value; the zero extension to u128 keeps it.  (The counter wraps at 2^64;
\* MaxGrants keeps it far below.)
UuidPseudo(count) == [id |-> count, count |-> count + 1]

\* grant_lease without the match on the jurisdiction: leases stack.
GrantLeaseStack(m, peer, duration, t_now, count) ==
  [meta |-> Foreign(peer, count, 1, t_now + duration),
   count |-> count + 1,
   ret |-> [ok |-> TRUE, lease_id |-> count, epoch |-> 1]]

\* grant_lease that lets a new lease preempt an expired one.
GrantLeasePreempt(m, peer, duration, t_now, count) ==
  IF m.kind = "Domestic" \/ t_now >= m.expires_at
  THEN [meta |-> Foreign(peer, count, 1, t_now + duration),
        count |-> count + 1,
        ret |-> [ok |-> TRUE, lease_id |-> count, epoch |-> 1]]
  ELSE [meta |-> m, count |-> count,
        ret |-> [ok |-> FALSE, err |-> MsgAlreadyLeased]]

\* grant_lease that forgets to add the duration.
GrantLeaseNoDuration(m, peer, duration, t_now, count) ==
  IF m.kind = "Domestic"
  THEN [meta |-> Foreign(peer, count, 1, t_now),
        count |-> count + 1,
        ret |-> [ok |-> TRUE, lease_id |-> count, epoch |-> 1]]
  ELSE [meta |-> m, count |-> count,
        ret |-> [ok |-> FALSE, err |-> MsgAlreadyLeased]]

\* Sovereign::grant_lease under the write lock.
GrantLease(m, peer, duration, t_now, count) ==
  IF m.kind = "Domestic"
  THEN LET u == UuidPseudo(count)
           lease_id == u.id
           epoch == 1
           expires_at == t_now + duration
       IN [meta |-> Foreign(peer, lease_id, epoch, expires_at),
           count |-> u.count,
           ret |-> [ok |-> TRUE, lease_id |-> lease_id, epoch |-> epoch]]
  ELSE [meta |-> m, count |-> count,
        ret |-> [ok |-> FALSE, err |-> MsgAlreadyLeased]]

\* try_hire that hands out the lease already in force when the grant fails.
TryHireShared(m, peer_id, duration, t_now, count) ==
  IF m.kind = "Domestic"
  THEN [meta |-> Foreign(peer_id, count, 1, t_now + duration),
        count |-> count + 1,
        ret |-> [ok |-> TRUE, lease_id |-> count,
                 holder |-> peer_id, duration |-> duration]]
  ELSE [meta |-> m, count |-> count,
        ret |-> [ok |-> TRUE, lease_id |-> m.lease_id,
                 holder |-> peer_id, duration |-> duration]]

\* DistributedBorrow::try_hire: grant_lease, Ok wrapped into a Lease, every
\* Err mapped to LeaseError::AlreadyLeased.
TryHire(m, peer_id, duration, t_now, count) ==
  LET r == GrantLease(m, peer_id, duration, t_now, count)
  IN [meta |-> r.meta, count |-> r.count,
      ret |-> IF r.ret.ok
              THEN [ok |-> TRUE, lease_id |-> r.ret.lease_id,
                    holder |-> peer_id, duration |-> duration]
              ELSE [ok |-> FALSE, err |-> "AlreadyLeased"]]

\* RwLock::new
Unlocked == [w |-> 0, r |-> {}]

\* A thread that is in no call.
Idle == [at |-> "idle"]

\* A binding that holds nothing: not yet assigned, or moved out of.
Moved == [kind |-> "moved"]

\* No publish run has been started.
NoRun == [at |-> "none"]

\* No xtask command has been started.
NoTask == [cmd |-> "none"]

\* The dashboard has not been started.
NoApp == [at |-> "none"]

\* ------------------------------------------------------------------ Init
\* The process has built the guards G with Sovereign::new; COUNT is the
\* static's initializer.
Built(G) ==
  /\ \E v \in [G -> Values] :
       /\ inner = [g \in G |-> New(v[g]).inner]
       /\ meta = [g \in G |-> New(v[g]).meta]
       /\ last = [op |-> "new", value |-> v]
  /\ COUNT = 0
  /\ now = 0
  /\ refs = [g \in G |-> 0]
  /\ issued = <<>>
  /\ lk = [g \in G |-> Unlocked]
  /\ pc = [t \in Threads |-> Idle]
  /\ cargo = [s \in Slots |-> Moved]
  /\ run = NoRun
  /\ xtask = NoTask
  /\ app = NoApp

\* WaitForGraph::new
WaitForGraphNew == <<>>

\* Arc::new(Mutex::new(WaitForGraph::new()))
Detector == graph = WaitForGraphNew /\ mutex = 0

\* One guard.
Init == Built({1}) /\ Detector

\* Two guards in one process: they share COUNT and the clock.
InitFleet == Built({1, 2}) /\ Detector

\* The guards of the process.
Guards == DOMAIN meta

\* --------------------------------------------------------------- actions
\* The clock advances.
Tick ==
  /\ now < MaxTime
  /\ now' = now + 1
  /\ UNCHANGED <<inner, meta, COUNT, refs, last, issued>>

\* read: *sov through Deref::deref(&self).  On the normal return the caller
\* holds a &T into inner for as long as it likes.
Read(g) ==
  /\ LET r == Deref(meta[g], inner[g], now)
     IN /\ refs' = IF r.panic \/ refs[g] >= MaxRefs
                   THEN refs ELSE [refs EXCEPT ![g] = @ + 1]
        /\ last' = [op |-> "read", g |-> g, pre |-> meta[g], at |-> now,
                    ret |-> r]
  /\ UNCHANGED <<inner, meta, COUNT, now, issued>>

\* The caller lets go of a reference it got from deref.
DropRef(g) ==
  /\ refs[g] > 0
  /\ refs' = [refs EXCEPT ![g] = @ - 1]
  /\ UNCHANGED <<inner, meta, COUNT, now, last, issued>>

\* write: *sov = v through DerefMut::deref_mut(&mut self).  The borrow
\* checker admits &mut self only while no other borrow of the guard is
\* alive, so no &T from deref is.
Write(g, v) ==
  /\ refs[g] = 0
  /\ LET r == Deref(meta[g], inner[g], now)
     IN /\ inner' = IF r.panic THEN inner ELSE [inner EXCEPT ![g] = v]
        /\ last' = [op |-> "write", g |-> g, pre |-> meta[g], at |-> now,
                    ret |-> r]
  /\ UNCHANGED <<meta, COUNT, now, refs, issued>>

\* sov.reclaim()
DoReclaim(g) ==
  /\ meta' = [meta EXCEPT ![g] = Reclaim(@, now)]
  /\ last' = [op |-> "reclaim", g |-> g, pre |-> meta[g], at |-> now,
              ret |-> Unit]
  /\ UNCHANGED <<inner, COUNT, now, refs, issued>>

\* The effect of a grant on the guard and the id counter.
Granted(g, op, peer, duration, r) ==
  /\ meta' = [meta EXCEPT ![g] = r.meta]
  /\ COUNT' = r.count
  /\ issued' = IF r.ret.ok
               THEN Append(issued, [g |-> g, lease_id |-> r.ret.lease_id,
                                    epoch |-> r.meta.epoch])
               ELSE issued
  /\ last' = [op |-> op, g |-> g, pre |-> meta[g], at |-> now,
              peer |-> peer, duration |-> duration, ret |-> r.ret]
  /\ UNCHANGED <<inner, now, refs>>

\* sov.grant_lease(peer, duration)
DoGrantLease(g, peer, duration) ==
  /\ COUNT < MaxGrants
  /\ Granted(g, "grant_lease", peer, duration,
             GrantLease(meta[g], peer, duration, now, COUNT))

\* sov.try_hire(peer_id, duration)
DoTryHire(g, peer_id, duration) ==
  /\ COUNT < MaxGrants
  /\ Granted(g, "try_hire", peer_id, duration,
             TryHire(meta[g], peer_id, duration, now, COUNT))

\* No call on the wait-for graph, and no call is under way: each call below
\* is the one step it takes under the lock.
GraphRests == UNCHANGED <<graph, lk, pc, mutex, cargo, run,
                 xtask, app>>

Next ==
  \/ Tick /\ GraphRests
  \/ \E g \in Guards : Read(g) /\ GraphRests
  \/ \E g \in Guards : DropRef(g) /\ GraphRests
  \/ \E g \in Guards, v \in Values : Write(g, v) /\ GraphRests
  \/ \E g \in Guards : DoReclaim(g) /\ GraphRests
  \/ \E g \in Guards, peer \in Peers, duration \in Durations :
       DoGrantLease(g, peer, duration) /\ GraphRests
  \/ \E g \in Guards, peer \in Peers, duration \in Durations :
       DoTryHire(g, peer, duration) /\ GraphRests

Spec == Init /\ [][Next]_vars

\* The calls that reach the jurisdiction and the id counter: deref and
\* deref_mut read meta and never write it, and never touch COUNT.
NextFleet ==
  \/ Tick /\ GraphRests
  \/ \E g \in Guards : DoReclaim(g) /\ GraphRests
  \/ \E g \in Guards, peer \in Peers, duration \in Durations :
       DoGrantLease(g, peer, duration) /\ GraphRests
  \/ \E g \in Guards, peer \in Peers, duration \in Durations :
       DoTryHire(g, peer, duration) /\ GraphRests

\* Two guards, leased and reclaimed by any number of concurrent callers.
SpecFleet == InitFleet /\ [][NextFleet]_vars

\* ============================================================ the lock
\* The calls that take the read lock (through ensure_domestic) and the calls
\* that take the write lock.
ReadCalls == {"deref", "deref_mut"}

WriteCalls == {"reclaim", "grant_lease", "try_hire"}

\* RwLock::read returns when no writer holds the lock, RwLock::write when
\* nobody holds it.  Which of several waiting threads goes first is not
\* specified by std.
CanLock(l, op) ==
  IF op \in ReadCalls THEN l.w = 0 ELSE l.w = 0 /\ l.r = {}

Lock(l, t, op) ==
  IF op \in ReadCalls THEN [l EXCEPT !.r = @ \cup {t}] ELSE [l EXCEPT !.w = t]

\* A guard that is dropped on the normal return only.
ReleaseOnReturn(l, t, panicked) ==
  IF panicked
  THEN l
  ELSE [w |-> IF l.w = t THEN 0 ELSE l.w, r |-> l.r \ {t}]

\* The RwLockReadGuard or RwLockWriteGuard goes out of scope: at the end of
\* the function and, when ensure_domestic panics, during unwinding.
Release(l, t, panicked) ==
  [w |-> IF l.w = t THEN 0 ELSE l.w, r |-> l.r \ {t}]

\* The calls that are under way on guard g.
Busy(g) == {t \in Threads : pc[t].at # "idle" /\ pc[t].g = g}

\* The grants that are under way.
Granting ==
  {t \in Threads : pc[t].at # "idle" /\ pc[t].op \in {"grant_lease", "try_hire"}}

\* Thread t calls op on guard g.  deref_mut takes &mut self: no other call
\* on the guard is under way, and none starts before it has returned.
Begin(t, g, op) ==
  /\ pc[t] = Idle
  /\ IF op = "deref_mut"
     THEN Busy(g) = {}
     ELSE \A u \in Busy(g) : pc[u].op # "deref_mut"
  /\ op \in {"grant_lease", "try_hire"} =>
       COUNT + Cardinality(Granting) < MaxGrants
  /\ pc' = [pc EXCEPT ![t] = [at |-> "want", op |-> op, g |-> g]]
  /\ UNCHANGED <<inner, meta, COUNT, now, refs, last, issued, graph, lk,
                 mutex, cargo, run,
                 xtask, app>>

\* self.meta.read() or self.meta.write() returns to thread t.
Acquire(t) ==
  /\ pc[t].at = "want"
  /\ CanLock(lk[pc[t].g], pc[t].op)
  /\ lk' = [lk EXCEPT ![pc[t].g] = Lock(@, t, pc[t].op)]
  /\ pc' = [pc EXCEPT ![t].at = "in"]
  /\ UNCHANGED <<inner, meta, COUNT, now, refs, last, issued, graph, mutex,
                 cargo, run,
                 xtask, app>>

\* What the body of the call of thread t does to the jurisdiction and the
\* counter, and whether it panics.
Body(t, peer, duration) ==
  LET g == pc[t].g
      op == pc[t].op
  IN IF op \in ReadCalls
     THEN [meta |-> meta[g], count |-> COUNT,
           panicked |-> EnsureDomestic(meta[g], now).panic]
     ELSE IF op = "reclaim"
          THEN [meta |-> Reclaim(meta[g], now), count |-> COUNT,
                panicked |-> FALSE]
          ELSE LET r == IF op = "grant_lease"
                        THEN GrantLease(meta[g], peer, duration, now, COUNT)
                        ELSE TryHire(meta[g], peer, duration, now, COUNT)
               IN [meta |-> r.meta, count |-> r.count, panicked |-> FALSE]

\* Thread t runs the body under the lock, lets the lock go and returns.
\* Every path of ensure_domestic, reclaim and grant_lease is straight-line
\* code: the step waits for nothing.
End(t) ==
  /\ pc[t].at = "in"
  /\ \E peer \in Peers, duration \in Durations :
       LET b == Body(t, peer, duration)
       IN /\ meta' = [meta EXCEPT ![pc[t].g] = b.meta]
          /\ COUNT' = b.count
          /\ lk' = [lk EXCEPT ![pc[t].g] = Release(@, t, b.panicked)]
  /\ pc' = [pc EXCEPT ![t] = Idle]
  /\ UNCHANGED <<inner, now, refs, last, issued, graph, mutex, cargo, run,
                 xtask, app>>

NextLock ==
  \/ Tick /\ GraphRests
  \/ \E t \in Threads, g \in Guards, op \in ReadCalls \cup WriteCalls :
       Begin(t, g, op)
  \/ \E t \in Threads : Acquire(t)
  \/ \E t \in Threads : End(t)

\* One guard and the threads that call it.  A thread that holds the lock is
\* scheduled until it has let it go.
SpecLock ==
  Init /\ [][NextLock]_vars /\ \A t \in Threads : WF_vars(End(t))

\* ======================================================= wait-for graph
\* The elements of a sequence.
Range(s) == {s[i] : i \in DOMAIN s}

\* Where node n is in the map, 0 when it has no entry.
Slot(g, n) ==
  LET at == {i \in DOMAIN g : g[i].node = n}
  IN IF at = {} THEN 0 ELSE CHOOSE i \in at : TRUE

\* The nodes n waits on, in insertion order.
Waits(g, n) == IF Slot(g, n) = 0 THEN <<>> ELSE g[Slot(g, n)].waits

\* The edge set of the graph.
Edges(g) ==
  UNION {{<<g[i].node, to>> : to \in Range(g[i].waits)} : i \in DOMAIN g}

\* An insertion that does not look for the edge first.
AddWaitAgain(g, from, to) ==
  LET i == Slot(g, from)
  IN IF i = 0
     THEN Append(g, [node |-> from, waits |-> <<to>>])
     ELSE [g EXCEPT ![i].waits = Append(@, to)]

\* An insertion that overwrites the edges the node already has.
AddWaitReplace(g, from, to) ==
  LET i == Slot(g, from)
  IN IF i = 0
     THEN Append(g, [node |-> from, waits |-> <<to>>])
     ELSE [g EXCEPT ![i].waits = <<to>>]

\* add_wait(from, to): insert the edge; adding it again is a no-op.
AddWait(g, from, to) ==
  LET i == Slot(g, from)
  IN IF i = 0
     THEN Append(g, [node |-> from, waits |-> <<to>>])
     ELSE IF to \in Range(g[i].waits)
          THEN g
          ELSE [g EXCEPT ![i].waits = Append(@, to)]

\* A removal that removes nothing.
RemoveWaitKeep(g, from, to) == g

\* remove_wait(from, to): remove the edge if present, no-op otherwise.
RemoveWait(g, from, to) ==
  LET i == Slot(g, from)
      rest == SelectSeq(g[i].waits, LAMBDA x : x # to)
  IN IF i = 0
     THEN g
     ELSE IF rest = <<>>
          THEN SubSeq(g, 1, i - 1) \o SubSeq(g, i + 1, Len(g))
          ELSE [g EXCEPT ![i].waits = rest]

RECURSIVE Visit(_, _, _, _), VisitEach(_, _, _, _, _), Scan(_, _, _)

\* An outer loop that searches from the first node only.
ScanFirstOnly(g, i, visited) ==
  IF i > Len(g)
  THEN [found |-> FALSE, expanded |-> <<>>]
  ELSE LET r == Visit(g, g[i].node, visited, {})
       IN [found |-> r.found, expanded |-> r.expanded]

\* The depth-first search of detect_cycle from node n: n is marked visited
\* and on the current path, and its edges are followed in order.  expanded
\* lists the nodes whose edges the search has gone through, in order.
Visit(g, n, visited, on_path) ==
  LET r == VisitEach(g, Waits(g, n), 1, visited \cup {n}, on_path \cup {n})
  IN [r EXCEPT !.expanded = <<n>> \o @]

\* An edge loop with one mark: any node seen before counts as a cycle.
VisitEachOneMark(g, ws, i, visited, on_path) ==
  IF i > Len(ws)
  THEN [found |-> FALSE, visited |-> visited, expanded |-> <<>>]
  ELSE IF ws[i] \in visited
       THEN [found |-> TRUE, visited |-> visited, expanded |-> <<>>]
       ELSE LET r == Visit(g, ws[i], visited, on_path)
            IN IF r.found
               THEN r
               ELSE LET q == VisitEach(g, ws, i + 1, r.visited, on_path)
                    IN [q EXCEPT !.expanded = r.expanded \o @]

\* Edge i of the node at the end of the current path: a cycle iff it leads
\* to a node on the current path; a node that is only visited is skipped.
VisitEach(g, ws, i, visited, on_path) ==
  IF i > Len(ws)
  THEN [found |-> FALSE, visited |-> visited, expanded |-> <<>>]
  ELSE IF ws[i] \in on_path
       THEN [found |-> TRUE, visited |-> visited, expanded |-> <<>>]
       ELSE IF ws[i] \in visited
            THEN VisitEach(g, ws, i + 1, visited, on_path)
            ELSE LET r == Visit(g, ws[i], visited, on_path)
                 IN IF r.found
                    THEN r
                    ELSE LET q == VisitEach(g, ws, i + 1, r.visited, on_path)
                         IN [q EXCEPT !.expanded = r.expanded \o @]

\* The outer loop: a search from every node not yet visited.
Scan(g, i, visited) ==
  IF i > Len(g)
  THEN [found |-> FALSE, expanded |-> <<>>]
  ELSE IF g[i].node \in visited
       THEN Scan(g, i + 1, visited)
       ELSE LET r == Visit(g, g[i].node, visited, {})
            IN IF r.found
               THEN [found |-> TRUE, expanded |-> r.expanded]
               ELSE LET q == Scan(g, i + 1, r.visited)
                    IN [q EXCEPT !.expanded = r.expanded \o @]

\* detect_cycle()
DetectCycle(g) == Scan(g, 1, {}).found

\* Option<Vec<node>>
None == [some |-> FALSE]

Some(path) == [some |-> TRUE, path |-> path]

\* The whole path stack, the lead-in to the cycle included.
SliceWhole(path, n) == path

\* The path stack from the first occurrence of n on.
SliceFrom(path, n) ==
  SubSeq(path, CHOOSE i \in DOMAIN path :
                 path[i] = n /\ \A j \in 1..(i - 1) : path[j] # n,
         Len(path))

RECURSIVE Trace(_, _, _, _), TraceEach(_, _, _, _, _), ScanPath(_, _, _)

\* The same search for find_cycle_path, with the path stack recorded.
Trace(g, n, visited, path) ==
  TraceEach(g, Waits(g, n), 1, visited \cup {n}, Append(path, n))

TraceEach(g, ws, i, visited, path) ==
  IF i > Len(ws)
  THEN [cycle |-> None, visited |-> visited]
  ELSE IF ws[i] \in Range(path)
       THEN [cycle |-> Some(SliceFrom(path, ws[i])), visited |-> visited]
       ELSE IF ws[i] \in visited
            THEN TraceEach(g, ws, i + 1, visited, path)
            ELSE LET r == Trace(g, ws[i], visited, path)
                 IN IF r.cycle.some
                    THEN r
                    ELSE TraceEach(g, ws, i + 1, r.visited, path)

ScanPath(g, i, visited) ==
  IF i > Len(g)
  THEN None
  ELSE IF g[i].node \in visited
       THEN ScanPath(g, i + 1, visited)
       ELSE LET r == Trace(g, g[i].node, visited, <<>>)
            IN IF r.cycle.some
               THEN r.cycle
               ELSE ScanPath(g, i + 1, r.visited)

\* find_cycle_path()
FindCyclePath(g) == ScanPath(g, 1, {})

\* No call on a guard, and the clock plays no part.
GuardsRest ==
  UNCHANGED <<inner, meta, COUNT, now, refs, issued, lk, pc, mutex, cargo,
              run, xtask, app>>

\* graph.add_wait(from, to)
DoAddWait(from, to) ==
  /\ <<from, to>> \in Edges(graph) \/ Cardinality(Edges(graph)) < MaxEdges
  /\ graph' = AddWait(graph, from, to)
  /\ last' = [op |-> "add_wait"]
  /\ GuardsRest

\* graph.remove_wait(from, to)
DoRemoveWait(from, to) ==
  /\ graph' = RemoveWait(graph, from, to)
  /\ last' = [op |-> "remove_wait"]
  /\ GuardsRest

\* A detect_cycle that takes the entries out of the map as it visits them.
DoDetectCycleDraining ==
  /\ last' = [op |-> "detect_cycle", ret |-> DetectCycle(graph)]
  /\ graph' = WaitForGraphNew
  /\ GuardsRest

\* graph.detect_cycle()
DoDetectCycle ==
  /\ last' = [op |-> "detect_cycle", ret |-> DetectCycle(graph)]
  /\ UNCHANGED graph
  /\ GuardsRest

\* graph.find_cycle_path()
DoFindCyclePath ==
  /\ last' = [op |-> "find_cycle_path", ret |-> FindCyclePath(graph)]
  /\ UNCHANGED graph
  /\ GuardsRest

\* The edges callers record: a holder waits for a resource, a resource is
\* held by a holder, and a node may be made to wait on itself.
WaitPairs ==
  {e \in NodeIds \X NodeIds :
     e[1] = e[2] \/ (e[1] \in Holders) # (e[2] \in Holders)}

\* A process with a new, empty wait-for graph and no guard.
InitGraph == Built({}) /\ Detector

NextGraph ==
  \/ \E e \in WaitPairs : DoAddWait(e[1], e[2])
  \/ \E e \in WaitPairs : DoRemoveWait(e[1], e[2])
  \/ DoDetectCycle
  \/ DoFindCyclePath

SpecGraph == InitGraph /\ [][NextGraph]_vars

\* ------------------------------------------------- the graph behind its mutex
\* The edges each holder of the bank example records: the resource it waits
\* for and the resource it holds.
OwnPairs(h) ==
  IF h = 1 THEN {<<1, 200>>, <<100, 1>>} ELSE {<<2, 100>>, <<200, 2>>}

\* The calls holders make on the shared graph.
GraphCalls == {"add_wait", "remove_wait", "detect_cycle"}

\* A lock that lets every caller in.
TryLockOpen(m) == TRUE

\* Mutex::lock returns when nobody holds the mutex.
TryLock(m) == m = 0

\* Holder h is about to call op: it asks for the mutex.
AskDetector(h, op) ==
  /\ pc[h] = Idle
  /\ pc' = [pc EXCEPT ![h] = [at |-> "want", op |-> op]]
  /\ UNCHANGED <<inner, meta, COUNT, now, refs, last, issued, graph, lk, mutex,
                 cargo, run,
                 xtask, app>>

\* detector.lock().unwrap() returns to holder h and its call starts; a
\* detect_cycle starts its traversal on the graph as it is now.
LockDetector(h) ==
  /\ pc[h].at = "want"
  /\ TryLock(mutex)
  /\ mutex' = h
  /\ pc' = [pc EXCEPT ![h] = [at |-> "in", op |-> pc[h].op, began |-> graph]]
  /\ UNCHANGED <<inner, meta, COUNT, now, refs, last, issued, graph, lk,
                 cargo, run,
                 xtask, app>>

\* The call of holder h comes to its end, the MutexGuard is dropped.
LeaveDetector(h) ==
  /\ pc[h].at = "in"
  /\ \/ /\ pc[h].op = "add_wait"
        /\ \E e \in OwnPairs(h) : graph' = AddWait(graph, e[1], e[2])
        /\ last' = [op |-> "add_wait"]
     \/ /\ pc[h].op = "remove_wait"
        /\ \E e \in OwnPairs(h) : graph' = RemoveWait(graph, e[1], e[2])
        /\ last' = [op |-> "remove_wait"]
     \/ /\ pc[h].op = "detect_cycle"
        /\ last' = [op |-> "detect_cycle", ret |-> DetectCycle(graph)]
        /\ UNCHANGED graph
  /\ mutex' = IF mutex = h THEN 0 ELSE mutex
  /\ pc' = [pc EXCEPT ![h] = Idle]
  /\ UNCHANGED <<inner, meta, COUNT, now, refs, issued, lk, cargo, run,
                 xtask, app>>

NextShared ==
  \/ \E h \in Holders, op \in GraphCalls : AskDetector(h, op)
  \/ \E h \in Holders : LockDetector(h)
  \/ \E h \in Holders : LeaveDetector(h)

\* The two holders of the bank example share one graph.
SpecShared == InitGraph /\ [][NextShared]_vars

\* ================================================================ claims
\* What the last call was.
IsAccess == last.op \in {"read", "write"}

IsGrant == last.op \in {"grant_lease", "try_hire"}

\* The last call found a lease that had (not) run out.
FoundForeign == last.pre.kind = "Foreign"

FoundExpired == FoundForeign /\ last.at >= last.pre.expires_at

FoundUnexpired == FoundForeign /\ last.at < last.pre.expires_at

\* A step is a successful grant on g for the duration d.
GrantOk(g, d) ==
  /\ \E p \in Peers : DoGrantLease(g, p, d) \/ DoTryHire(g, p, d)
  /\ last'.ret.ok

C3_NoReferenceWhileForeign ==
  \A g \in Guards : meta[g].kind = "Foreign" => refs[g] = 0

\* ---- C4: reclaim() on a Foreign guard before expiry fails with
\* NotYetExpired and leaves the jurisdiction unchanged.
C4_ReclaimEarlyNotYetExpired ==
  last.op = "reclaim" /\ FoundUnexpired =>
    last.ret = [err |-> "NotYetExpired"] /\ meta[last.g] = last.pre

\* ---- C5: reclaim() on a Foreign guard at or after expiry makes the guard
\* Domestic; the value is the same from the grant through the reclaim; and
\* on a Domestic guard read() and write() succeed, read() returning the
\* stored value.
C5_ReclaimExpiredRestores ==
  [][\A g \in Guards :
       /\ DoReclaim(g) /\ meta[g].kind = "Foreign" /\ now >= meta[g].expires_at
            => meta'[g] = Domestic
       /\ meta[g].kind = "Foreign" \/ meta'[g].kind = "Foreign"
            => inner'[g] = inner[g]
       /\ Read(g) /\ meta[g] = Domestic
            => ~last'.ret.panic /\ last'.ret.value = inner[g]
       /\ \A v \in Values :
            Write(g, v) /\ meta[g] = Domestic
              => ~last'.ret.panic /\ inner'[g] = v]_vars

\* A reclaim at the very instant of expiry brought the guard home.
C5_Witness ==
  /\ last.op = "reclaim" /\ FoundForeign /\ last.at = last.pre.expires_at
  /\ meta[last.g] = Domestic

\* ---- C6: grant_lease on a Foreign guard fails with the already-leased
\* error (AlreadyLeased through try_hire) and leaves the jurisdiction as it
\* was, also when the lease has expired and has not been reclaimed.
C6_GrantOnForeignFails ==
  IsGrant /\ FoundForeign =>
    /\ ~last.ret.ok
    /\ last.ret.err =
         IF last.op = "try_hire" THEN "AlreadyLeased" ELSE MsgAlreadyLeased
    /\ meta[last.g] = last.pre

\* A grant was refused on an expired, unreclaimed lease.
C6_Witness == IsGrant /\ FoundExpired /\ ~last.ret.ok

\* ---- C7: the first successful grant on a guard has epoch 1 and every
\* later one has the epoch of the grant before it plus 1.
C7_EpochIncreases ==
  \A g \in Guards :
    LET mine == SelectSeq(issued, LAMBDA e : e.g = g)
    IN \A i \in DOMAIN mine :
         mine[i].epoch = IF i = 1 THEN 1 ELSE mine[i - 1].epoch + 1

\* ---- C8: any two successful grants, on one guard or on two, return
\* different lease ids, and the id recorded in the Foreign jurisdiction is
\* the id returned to the caller.
C8_LeaseIdsUnique ==
  /\ \A i, j \in DOMAIN issued :
       i # j => issued[i].lease_id # issued[j].lease_id
  /\ IsGrant /\ last.ret.ok =>
       /\ meta[last.g].kind = "Foreign"
       /\ meta[last.g].lease_id = last.ret.lease_id

\* Three grants: two of them on one guard, two of them on different guards.
C8_Witness ==
  /\ Len(issued) = 3
  /\ issued[1].g = issued[3].g
  /\ issued[1].g # issued[2].g

\* ---- C9: a read() or write() on a Foreign guard returns an error value;
\* it does not panic.
C9_FailureIsReturned ==
  IsAccess /\ FoundForeign => ~last.ret.panic

\* ---- C10: a refused access tells the two cases apart: before expiry the
\* failure carries the holder and expires_at of the lease, from expiry on it
\* is the expired-unreclaimed failure and carries the holder.
C10_FailureCarriesLease ==
  IsAccess /\ FoundForeign =>
    /\ last.ret.panic
    /\ "holder" \in DOMAIN last.ret
    /\ last.ret.holder = last.pre.holder
    /\ IF last.at < last.pre.expires_at
       THEN /\ last.ret.msg = MsgLeased
            /\ last.ret.expires_at = last.pre.expires_at
       ELSE last.ret.msg = MsgExpired

\* ---- C11: a guard built by new(v) is Domestic, and a read() made right
\* after new(v), before any other call, succeeds and returns v.
C11_ReadAfterNew ==
  [][\A g \in Guards :
       last.op = "new" =>
         /\ meta[g] = Domestic
         /\ Read(g) => ~last'.ret.panic /\ last'.ret.value = last.value[g]]_vars

\* The first call on a new guard was a read, and it returned the value.
C11_Witness ==
  /\ last.op = "read" /\ ~last.ret.panic
  /\ last.at = 0 /\ COUNT = 0 /\ last.ret.value = 1

\* ---- C12: a successful grant_lease(holder_id, duration) starts from
\* Domestic and leaves the guard Foreign with holder = holder_id, the lease
\* id it returns, which no earlier grant returned, and expires_at = the time
\* of the grant + duration.
C12_GrantEffect ==
  last.op = "grant_lease" /\ last.ret.ok =>
    /\ last.pre = Domestic
    /\ meta[last.g].kind = "Foreign"
    /\ meta[last.g].holder = last.peer
    /\ meta[last.g].lease_id = last.ret.lease_id
    /\ meta[last.g].expires_at = last.at + last.duration
    /\ issued[Len(issued)].lease_id = last.ret.lease_id
    /\ \A i \in 1..(Len(issued) - 1) :
         issued[i].lease_id # last.ret.lease_id

\* A second grant, later than time 0, for a duration that is not 0.
C12_Witness ==
  /\ last.op = "grant_lease" /\ last.ret.ok
  /\ Len(issued) = 2 /\ last.at > 0 /\ last.duration > 0

C15_NoProactiveExpiry ==
  [][\A g \in Guards :
       /\ meta'[g] # meta[g] =>
            \/ /\ meta[g] = Domestic /\ meta'[g].kind = "Foreign"
               /\ \E d \in Durations : GrantOk(g, d)
            \/ /\ meta[g].kind = "Foreign" /\ meta'[g] = Domestic
               /\ DoReclaim(g) /\ now >= meta[g].expires_at
       /\ now' # now => meta' = meta
       /\ Read(g) => meta' = meta
       /\ (\A v \in Values : Write(g, v) => meta' = meta)
       /\ DoReclaim(g) /\ meta[g].kind = "Foreign" /\ now < meta[g].expires_at
            => meta' = meta
       /\ \A p \in Peers, d \in Durations :
            (DoGrantLease(g, p, d) \/ DoTryHire(g, p, d)) /\ ~last'.ret.ok
              => meta' = meta]_vars

\* The lease ran out some time ago, calls were made, the guard is Foreign.
C15_Witness ==
  /\ IsAccess /\ FoundExpired
  /\ now > last.pre.expires_at /\ meta[last.g] = last.pre

\* ================================================== the invariant enforcer
\* The invariants declared on the fields of BenchData, in declaration order.
Declared == <<"self.value >= 0", "self.limit < 1000">>

\* BenchData values on both sides of each invariant.
Structs == [value : {-1, 0, 100}, limit : {500, 999, 1000}]

\* The lists of (predicate, description) pairs a caller may declare.
LawLists == UNION {[1..n -> Range(Declared)] : n \in 0..MaxLaws}

\* The predicate of an invariant on a value.
Holds(law, v) ==
  IF law = "self.value >= 0" THEN v.value >= 0 ELSE v.limit < 1000

\* An enforcer that goes through all invariants and keeps the last failure.
RECURSIVE EnforceFromLast(_, _, _)
EnforceFromLast(v, laws, i) ==
  IF i > Len(laws)
  THEN [ok |-> TRUE]
  ELSE LET rest == EnforceFromLast(v, laws, i + 1)
       IN IF rest.ok /\ ~Holds(laws[i], v)
          THEN [ok |-> FALSE, law |-> laws[i]]
          ELSE rest

\* The invariants from the i-th on, in order: the first that does not hold
\* ends the check.
RECURSIVE EnforceFrom(_, _, _)
EnforceFrom(v, laws, i) ==
  IF i > Len(laws)
  THEN [ok |-> TRUE]
  ELSE IF Holds(laws[i], v)
       THEN EnforceFrom(v, laws, i + 1)
       ELSE [ok |-> FALSE, law |-> laws[i]]

\* Constitution::enforce_law(&self): the verdict, and the value as the call
\* leaves it.
EnforceLaw(v, laws) == [ret |-> EnforceFrom(v, laws, 1), value |-> v]

\* value.enforce_law()
DoEnforceLaw(v, laws) ==
  /\ LET r == EnforceLaw(v, laws)
     IN last' = [op |-> "enforce_law", value |-> v, laws |-> laws,
                 ret |-> r.ret, after |-> r.value]
  /\ UNCHANGED graph
  /\ GuardsRest

NextLaw == \E v \in Structs, laws \in LawLists : DoEnforceLaw(v, laws)

\* Values checked against lists of invariants.
SpecLaw == InitGraph /\ [][NextLaw]_vars

\* ============================================================ logistics
\* praborrow-logistics: a RawResource<T> wraps a value in ManuallyDrop; it is
\* moved into a HardwareFuture by give_to_hardware and moved back out by
\* wait.  A binding of the caller holds a resource, a future, or nothing
\* (Moved) once its value has been moved out.
Packets == {0, 7, 101}

RawResourceNew(value) == [kind |-> "raw", inner |-> value]

SomeRaw(raw) == [some |-> TRUE, raw |-> raw]

\* A future whose data is already gone.
GiveToHardwareStolen(raw) == [kind |-> "future", data |-> None]

GiveToHardware(raw) == [kind |-> "future", data |-> SomeRaw(raw)]

\* self.data.take().expect("Hardware data stolen!")
Wait(future) ==
  IF future.data.some
    THEN [panic |-> FALSE, ret |-> future.data.raw]
    ELSE [panic |-> TRUE, msg |-> "Hardware data stolen!"]

\* ManuallyDrop::take(&mut self.inner)
IntoInner(raw) == raw.inner

\* Writing through deref_mut.
DerefMutRaw(raw, value) == [raw EXCEPT !.inner = value]

LogisticsRest ==
  UNCHANGED <<inner, meta, COUNT, now, refs, issued, graph, lk, pc, mutex,
              run, xtask, app>>

\* let s = RawResource::new(value);
DoRawNew(s, value) ==
  /\ cargo[s] = Moved
  /\ cargo' = [cargo EXCEPT ![s] = RawResourceNew(value)]
  /\ last' = [op |-> "raw_new", value |-> value]
  /\ LogisticsRest

\* *s = value;
DoRawWrite(s, value) ==
  /\ cargo[s].kind = "raw"
  /\ cargo' = [cargo EXCEPT ![s] = DerefMutRaw(@, value)]
  /\ last' = [op |-> "raw_write", value |-> value]
  /\ LogisticsRest

\* let d = s.give_to_hardware();  s is moved out of, d may be s again.
DoGiveToHardware(s, d) ==
  /\ cargo[s].kind = "raw"
  /\ d = s \/ cargo[d] = Moved
  /\ cargo' = [cargo EXCEPT ![s] = Moved, ![d] = GiveToHardware(cargo[s])]
  /\ last' = [op |-> "give_to_hardware", value |-> cargo[s].inner]
  /\ LogisticsRest

\* let d = s.wait();  the future is consumed; on a panic nothing is bound.
DoWait(s, d) ==
  /\ cargo[s].kind = "future"
  /\ d = s \/ cargo[d] = Moved
  /\ LET r == Wait(cargo[s])
     IN /\ cargo' = [cargo EXCEPT ![s] = Moved,
                                  ![d] = IF r.panic THEN Moved ELSE r.ret]
        /\ last' = [op |-> "wait", panic |-> r.panic,
                    ret |-> IF r.panic THEN Moved ELSE r.ret]
  /\ LogisticsRest

\* let v = s.into_inner();
DoIntoInner(s) ==
  /\ cargo[s].kind = "raw"
  /\ cargo' = [cargo EXCEPT ![s] = Moved]
  /\ last' = [op |-> "into_inner", value |-> IntoInner(cargo[s])]
  /\ LogisticsRest

NextLogistics ==
  \/ \E s \in Slots, v \in Packets : DoRawNew(s, v)
  \/ \E s \in Slots, v \in Packets : DoRawWrite(s, v)
  \/ \E s, d \in Slots : DoGiveToHardware(s, d)
  \/ \E s, d \in Slots : DoWait(s, d)
  \/ \E s \in Slots : DoIntoInner(s)

\* Resources made, written, handed to the hardware and waited for.
SpecLogistics == InitGraph /\ [][NextLogistics]_vars

\* ============================================================== publish
\* xtask publish (xtask/src/publish.rs).  A workspace maps each crate name to
\* its Crate; package names are unique in a cargo workspace, and names are
\* numbered in their lexicographic order.  local_deps holds every name of the
\* [dependencies] table: a name that is no crate of the workspace is an
\* external dependency.
CrateNames == {1, 2, 3}

Workspaces ==
  UNION {[W -> [local_deps : SUBSET CrateNames]] : W \in SUBSET CrateNames}

MaxAttempts == 3

\* sorted_layer.sort_by(|a, b| a.name.cmp(&b.name))
RECURSIVE SortByName(_)
SortByName(S) ==
  IF S = {} THEN <<>>
  ELSE LET m == CHOOSE x \in S : \A y \in S : x <= y
       IN <<m>> \o SortByName(S \ {m})

\* A crate is ready when it has no dependency at all.
ReadyLeaf(crates, remaining, c) == crates[c].local_deps = {}

\* The filter of the loop: no dependency of c is still in remaining.
Ready(crates, remaining, c) ==
  \A dep_name \in crates[c].local_deps : dep_name \notin remaining

\* The while loop, from the state (remaining, layers) on.
RECURSIVE Layering(_, _, _)
Layering(crates, remaining, layers) ==
  IF remaining = {}
    THEN [ok |-> TRUE, layers |-> layers, remaining |-> {}]
    ELSE LET layer == {c \in remaining : Ready(crates, remaining, c)}
         IN IF layer = {}
              THEN [ok |-> FALSE, layers |-> <<>>, remaining |-> remaining]
              ELSE Layering(crates, remaining \ layer,
                            Append(layers, SortByName(layer)))

TopologicalSort(crates) == Layering(crates, DOMAIN crates, <<>>)

Pending == [s |-> "pending", attempts |-> 0]

\* What one run of cargo publish can come to.
Outcomes == {"success", "exists", "failure"}

\* A publish_crate that gives up at the first failed run.
PublishCrateOnce(dry_run, st, outcome) ==
  IF outcome = "success" \/ (~dry_run /\ outcome = "exists")
    THEN [s |-> "done", attempts |-> st.attempts + 1]
    ELSE [s |-> "failed", attempts |-> st.attempts + 1]

\* publish_crate after one more run of cargo with the given outcome.
PublishCrate(dry_run, st, outcome) ==
  IF dry_run
    THEN IF outcome = "success"
           THEN [s |-> "done", attempts |-> 1]
           ELSE [s |-> "failed", attempts |-> 1]
    ELSE LET attempts == st.attempts + 1
         IN IF outcome \in {"success", "exists"}
              THEN [s |-> "done", attempts |-> attempts]
              ELSE IF attempts >= MaxAttempts
                     THEN [s |-> "failed", attempts |-> attempts]
                     ELSE [s |-> "running", attempts |-> attempts]

\* The crates of the layer the run is in.
Layer(r) == Range(r.layers[r.i])

\* try_for_each came back without an error from each crate of the layer ...
LayerSettled(r) == \A c \in Layer(r) : r.st[c].s \in {"done", "failed"}

\* ... every crate of the layer was published: the ? lets the loop go on.
LayerSucceeded(r) == \A c \in Layer(r) : r.st[c].s = "done"

PublishRest ==
  UNCHANGED <<inner, meta, COUNT, now, refs, last, issued, graph, lk, pc,
              mutex, cargo, xtask, app>>

\* run_publish_parallel up to the first layer.
RunPublishParallel(crates, dry_run) ==
  /\ run = NoRun
  /\ LET sorted == TopologicalSort(crates)
     IN run' = [at |-> IF ~sorted.ok THEN "err"
                       ELSE IF sorted.layers = <<>> THEN "ok" ELSE "layer",
                crates |-> crates, dry_run |-> dry_run, sorted |-> sorted,
                layers |-> sorted.layers, i |-> 1,
                st |-> [c \in DOMAIN crates |-> Pending]]
  /\ PublishRest

\* A worker of the pool takes a crate of the layer.  try_for_each stops
\* handing out crates "as soon as possible" after an error: a crate may or
\* may not still be taken once another one of its layer has failed.
TakeCrate(c) ==
  /\ run.at = "layer"
  /\ c \in Layer(run)
  /\ run.st[c].s = "pending"
  /\ run' = [run EXCEPT !.st[c].s = "running"]
  /\ PublishRest

\* One run of cargo publish for crate c.
RunCargo(c, outcome) ==
  /\ run.at = "layer"
  /\ c \in Layer(run)
  /\ run.st[c].s = "running"
  /\ run' = [run EXCEPT !.st[c] = PublishCrate(run.dry_run, @, outcome)]
  /\ last' = [op |-> "cargo_publish", crate |-> c, outcome |-> outcome]
  /\ UNCHANGED <<inner, meta, COUNT, now, refs, issued, graph, lk, pc, mutex,
                 cargo, xtask, app>>

\* try_for_each returned Ok: the loop goes to the next layer, or the run ends.
NextLayer ==
  /\ run.at = "layer"
  /\ LayerSucceeded(run)
  /\ run' = IF run.i = Len(run.layers)
              THEN [run EXCEPT !.at = "ok"]
              ELSE [run EXCEPT !.i = @ + 1]
  /\ PublishRest

\* try_for_each returned the error of a crate, after the crates that were
\* taken have come back; the ? returns it.
ReturnErr ==
  /\ run.at = "layer"
  /\ \E c \in Layer(run) : run.st[c].s = "failed"
  /\ \A c \in Layer(run) : run.st[c].s # "running"
  /\ run' = [run EXCEPT !.at = "err"]
  /\ PublishRest

NextPublish ==
  \/ \E crates \in Workspaces, dry_run \in BOOLEAN :
       RunPublishParallel(crates, dry_run)
  \/ \E c \in CrateNames : TakeCrate(c)
  \/ \E c \in CrateNames, outcome \in Outcomes : RunCargo(c, outcome)
  \/ NextLayer
  \/ ReturnErr

\* One publish run over every workspace of up to three crates.
SpecPublish == InitGraph /\ [][NextPublish]_vars

\* ========================================================== version bump
\* bump_semver (xtask/src/main.rs).  A version is a string, here a sequence
\* of characters; a u32 is written as its decimal digits without leading
\* zeros, so that u32::MAX and its neighbours can be told apart.
Digits == <<"0", "1", "2", "3", "4", "5", "6", "7", "8", "9">>

DigitVal(c) == (CHOOSE i \in DOMAIN Digits : Digits[i] = c) - 1

IsDigit(c) == \E i \in DOMAIN Digits : Digits[i] = c

\* u32::MAX = 4294967295, and the text of u32::MAX + 1
U32Max == <<"4", "2", "9", "4", "9", "6", "7", "2", "9", "5">>
U32MaxPlus1 == <<"4", "2", "9", "4", "9", "6", "7", "2", "9", "6">>

\* a <= b for two numbers with the same count of digits
RECURSIVE LeqDigits(_, _)
LeqDigits(a, b) ==
  IF a = <<>> THEN TRUE
  ELSE IF DigitVal(Head(a)) # DigitVal(Head(b))
         THEN DigitVal(Head(a)) < DigitVal(Head(b))
         ELSE LeqDigits(Tail(a), Tail(b))

\* The number does not fit a u32.
Exceeds(n) ==
  \/ Len(n) > Len(U32Max)
  \/ Len(n) = Len(U32Max) /\ ~LeqDigits(n, U32Max)

\* n + 1 in decimal
RECURSIVE Succ(_)
Succ(n) ==
  IF n = <<>> THEN <<"1">>
  ELSE LET front == SubSeq(n, 1, Len(n) - 1)
           l == n[Len(n)]
       IN IF l = "9" THEN Succ(front) \o <<"0">>
          ELSE front \o <<Digits[DigitVal(l) + 2]>>

\* version.split('.'): the pieces between the dots, empty ones included.
RECURSIVE SplitDots(_, _, _)
SplitDots(version, i, piece) ==
  IF i > Len(version) THEN <<piece>>
  ELSE IF version[i] = "." THEN <<piece>> \o SplitDots(version, i + 1, <<>>)
       ELSE SplitDots(version, i + 1, Append(piece, version[i]))

\* str::parse::<u32>: an optional '+', then at least one digit; each digit is
\* folded in with checked_mul(10) and checked_add, an overflow is an error.
RECURSIVE ParseDigits(_, _, _)
ParseDigits(text, i, acc) ==
  IF i > Len(text) THEN [ok |-> TRUE, n |-> acc]
  ELSE IF ~IsDigit(text[i]) THEN [ok |-> FALSE, n |-> <<>>]
       ELSE LET next == IF acc = <<"0">> THEN <<text[i]>>
                        ELSE Append(acc, text[i])
            IN IF Exceeds(next) THEN [ok |-> FALSE, n |-> <<>>]
               ELSE ParseDigits(text, i + 1, next)

ParseU32(text) ==
  LET digits == IF text # <<>> /\ Head(text) = "+" THEN Tail(text) ELSE text
  IN IF digits = <<>> THEN [ok |-> FALSE, n |-> <<>>]
     ELSE ParseDigits(digits, 1, <<"0">>)

\* The two profiles xtask can be built with.
Builds == {"debug", "release"}

\* n + 1 on a u32: at u32::MAX a build with overflow checks panics, a build
\* without them wraps to 0.
AddOne(n, build) ==
  IF n = U32Max
    THEN IF build = "debug" THEN [panic |-> TRUE, n |-> <<>>]
         ELSE [panic |-> FALSE, n |-> <<"0">>]
    ELSE [panic |-> FALSE, n |-> Succ(n)]

BumpTypes == {"Patch", "Minor", "Major"}

\* format!("{}.{}.{}", new_major, new_minor, new_patch)
Format3(a, b, c) == a \o <<".">> \o b \o <<".">> \o c

Failed(msg) == [kind |-> "err", msg |-> msg, version |-> <<>>]

\* A bump that leaves the lower parts as they are.
BumpedKeep(major, minor, patch, bump_type, build) ==
  LET up == AddOne(CASE bump_type = "Major" -> major
                     [] bump_type = "Minor" -> minor
                     [] OTHER -> patch, build)
  IN IF up.panic THEN [kind |-> "panic", msg |-> "overflow", version |-> <<>>]
     ELSE [kind |-> "ok", msg |-> "",
           version |-> CASE bump_type = "Major" -> Format3(up.n, minor, patch)
                         [] bump_type = "Minor" -> Format3(major, up.n, patch)
                         [] OTHER -> Format3(major, minor, up.n)]

\* The match on bump_type and the format! of its result.
Bumped(major, minor, patch, bump_type, build) ==
  LET up == AddOne(CASE bump_type = "Major" -> major
                     [] bump_type = "Minor" -> minor
                     [] OTHER -> patch, build)
  IN IF up.panic THEN [kind |-> "panic", msg |-> "overflow", version |-> <<>>]
     ELSE [kind |-> "ok", msg |-> "",
           version |-> CASE bump_type = "Major" -> Format3(up.n, <<"0">>, <<"0">>)
                         [] bump_type = "Minor" -> Format3(major, up.n, <<"0">>)
                         [] OTHER -> Format3(major, minor, up.n)]

BumpSemver(version, bump_type, build) ==
  LET parts == SplitDots(version, 1, <<>>)
  IN IF Len(parts) # 3 THEN Failed("Invalid semver")
     ELSE LET major == ParseU32(parts[1])
              minor == ParseU32(parts[2])
              patch == ParseU32(parts[3])
          IN IF ~major.ok \/ ~minor.ok \/ ~patch.ok THEN Failed("ParseIntError")
             ELSE Bumped(major.n, minor.n, patch.n, bump_type, build)

\* The texts a part of a version is drawn from.
PartTexts ==
  {<<>>, <<"0">>, <<"9">>, <<"0", "7">>, <<"+", "1">>, <<"x">>, U32Max,
   U32MaxPlus1}

RECURSIVE JoinDots(_)
JoinDots(parts) ==
  IF Len(parts) = 1 THEN parts[1]
  ELSE parts[1] \o <<".">> \o JoinDots(Tail(parts))

\* Versions of one to four parts.
Versions == {JoinDots(ps) : ps \in UNION {[1..n -> PartTexts] : n \in 1..4}}

DoBumpSemver(version, bump_type, build) ==
  /\ last' = [op |-> "bump_semver", version |-> version,
              bump_type |-> bump_type, build |-> build,
              ret |-> BumpSemver(version, bump_type, build)]
  /\ UNCHANGED graph
  /\ GuardsRest

\* One invocation of xtask bumps one version (run_bump_version, line 328).
NextBump ==
  /\ last.op # "bump_semver"
  /\ \E version \in Versions, bump_type \in BumpTypes, build \in Builds :
       DoBumpSemver(version, bump_type, build)

\* Versions of every shape, bumped.
SpecBump == InitGraph /\ [][NextBump]_vars

\* ================================================== release and publish-all
\* run_release and run_publish_all (xtask/src/main.rs).  A command is a
\* sequence of steps; each step runs external commands, whose exit status is
\* an input.  log lists, in order, what the command has run that acts on the
\* working tree, the repository or a registry.
XtaskRest ==
  UNCHANGED <<inner, meta, COUNT, now, refs, last, issued, graph, lk, pc,
              mutex, cargo, run, app>>

\* The cargo command publish_crate runs.
CargoCommand(dry_run) ==
  IF dry_run THEN "cargo publish --dry-run --allow-dirty" ELSE "cargo publish"

Did(t, what) == [t EXCEPT !.log = Append(@, what)]

Ends(t, result, err) ==
  [t EXCEPT !.step = "end", !.result = result, !.err = err]

\* cargo xtask release [--skip-publish] [--dry-run]
RunRelease(skip_publish, dry_run) ==
  /\ xtask = NoTask
  /\ xtask' = [cmd |-> "release", skip_publish |-> skip_publish,
               dry_run |-> dry_run, step |-> "bump", log |-> <<>>,
               bumped |-> FALSE, result |-> "none", err |-> ""]
  /\ XtaskRest

\* Step 1: run_bump_version, unless this is a dry run.
StepBump(ok) ==
  /\ xtask.cmd = "release" /\ xtask.step = "bump"
  /\ xtask' = IF xtask.dry_run THEN [xtask EXCEPT !.step = "build"]
              ELSE IF ok
                     THEN [Did(xtask, "bump") EXCEPT !.step = "build",
                                                     !.bumped = TRUE]
                     ELSE Ends(xtask, "err", "bump")
  /\ XtaskRest

\* How a failed build or test is logged.
FailureOf(what) == IF what = "build" THEN "build failed" ELSE "test failed"

\* A build or test whose failure does not stop the workflow.
AfterCheckAnyway(t, what, ok, next) ==
  [Did(t, IF ok THEN what ELSE FailureOf(what)) EXCEPT !.step = next]

\* cargo build / cargo test inside the closure: its ? leaves the closure.
AfterCheck(t, what, ok, next) ==
  IF ok THEN [Did(t, what) EXCEPT !.step = next]
  ELSE [Did(t, FailureOf(what)) EXCEPT !.step = "revert", !.err = what]

\* Step 2: cargo build --workspace --exclude xtask
StepBuild(ok) ==
  /\ xtask.cmd = "release" /\ xtask.step = "build"
  /\ xtask' = AfterCheck(xtask, "build", ok, "test")
  /\ XtaskRest

\* Step 3: cargo test --workspace --exclude xtask
StepTest(ok) ==
  /\ xtask.cmd = "release" /\ xtask.step = "test"
  /\ xtask' = AfterCheck(xtask, "test", ok, "commit")
  /\ XtaskRest

\* if let Err(e) = result: git checkout of the manifests in a real run, whose
\* own failure is returned by its ?; then return Err(e).
StepRevert(ok) ==
  /\ xtask.cmd = "release" /\ xtask.step = "revert"
  /\ xtask' = IF xtask.dry_run THEN Ends(xtask, "err", xtask.err)
              ELSE IF ok
                     THEN [Ends(Did(xtask, "git checkout"), "err", xtask.err)
                             EXCEPT !.bumped = FALSE]
                     ELSE Ends(Did(xtask, "git checkout"), "err", "git checkout")
  /\ XtaskRest

GitSyncOutcomes == {"ok", "commit failed", "push failed"}

\* Step 4: run_git_sync(sh, &commit_msg, true), unless this is a dry run.
StepCommit(outcome) ==
  /\ xtask.cmd = "release" /\ xtask.step = "commit"
  /\ xtask' = IF xtask.dry_run THEN [xtask EXCEPT !.step = "publish"]
              ELSE CASE outcome = "ok" ->
                          [Did(Did(xtask, "commit"), "push")
                             EXCEPT !.step = "publish"]
                     [] outcome = "push failed" ->
                          Ends(Did(xtask, "commit"), "err", "git sync")
                     [] OTHER -> Ends(xtask, "err", "git sync")
  /\ XtaskRest

\* Step 5: the confirmation of a real run, then run_publish_parallel.
StepPublish(confirmed, ok) ==
  /\ xtask.cmd = "release" /\ xtask.step = "publish"
  /\ xtask' =
       IF xtask.skip_publish THEN Ends(xtask, "ok", "")
       ELSE IF ~xtask.dry_run /\ ~confirmed THEN Ends(xtask, "ok", "")
       ELSE LET t == IF xtask.dry_run THEN xtask ELSE Did(xtask, "confirmed")
                u == Did(t, CargoCommand(xtask.dry_run))
            IN IF ok THEN Ends(u, "ok", "") ELSE Ends(u, "err", "publish")
  /\ XtaskRest

\* The registries of publish-all, in the order they are tried.
Registries == <<"Crates.io", "PyPI", "NPM", "JSR">>

\* What trying a registry runs.
Runs(registry, dry_run) ==
  CASE registry = "Crates.io" -> CargoCommand(dry_run)
    [] registry = "PyPI" -> "maturin publish"
    [] registry = "NPM" -> "npm publish --access public"
    [] OTHER -> "npx jsr publish --allow-dirty"

\* A registry left out by its flag alone.
SkippedByFlag(t, registry) == t.skip[registry]

\* The conditions of the four ifs: Crates.io is left out by --skip-crates,
\* the others also by --dry-run.
Skipped(t, registry) ==
  IF registry = "Crates.io" THEN t.skip[registry]
  ELSE t.skip[registry] \/ t.dry_run

\* A publish-all that returns the first error.
AfterRegistryStop(t, ok) ==
  IF ok
    THEN [Did(t, Runs(Registries[t.i], t.dry_run))
            EXCEPT !.success_count = @ + 1, !.i = @ + 1]
    ELSE [Did(t, Runs(Registries[t.i], t.dry_run))
            EXCEPT !.fail_count = @ + 1, !.i = Len(Registries) + 1]

\* The match on the result of a registry's publish.
AfterRegistry(t, ok) ==
  IF ok
    THEN [Did(t, Runs(Registries[t.i], t.dry_run))
            EXCEPT !.success_count = @ + 1, !.i = @ + 1]
    ELSE [Did(t, Runs(Registries[t.i], t.dry_run))
            EXCEPT !.fail_count = @ + 1, !.i = @ + 1]

\* cargo xtask publish-all [--skip-...] [--dry-run]
RunPublishAll(skip, dry_run) ==
  /\ xtask = NoTask
  /\ xtask' = [cmd |-> "publish-all", skip |-> skip, dry_run |-> dry_run,
               i |-> 1, log |-> <<>>, success_count |-> 0, fail_count |-> 0,
               result |-> "none"]
  /\ XtaskRest

\* The i-th registry is skipped.
SkipRegistry ==
  /\ xtask.cmd = "publish-all" /\ xtask.i <= Len(Registries)
  /\ Skipped(xtask, Registries[xtask.i])
  /\ xtask' = [xtask EXCEPT !.i = @ + 1]
  /\ XtaskRest

\* The i-th registry is tried and its result counted.
TryRegistry(ok) ==
  /\ xtask.cmd = "publish-all" /\ xtask.i <= Len(Registries)
  /\ ~Skipped(xtask, Registries[xtask.i])
  /\ xtask' = AfterRegistry(xtask, ok)
  /\ XtaskRest

\* The summary, and Ok(()).
Summary ==
  /\ xtask.cmd = "publish-all" /\ xtask.i = Len(Registries) + 1
  /\ xtask.result = "none"
  /\ xtask' = [xtask EXCEPT !.result = "ok"]
  /\ XtaskRest

NextXtask ==
  \/ \E skip_publish, dry_run \in BOOLEAN : RunRelease(skip_publish, dry_run)
  \/ \E ok \in BOOLEAN : StepBump(ok)
  \/ \E ok \in BOOLEAN : StepBuild(ok)
  \/ \E ok \in BOOLEAN : StepTest(ok)
  \/ \E ok \in BOOLEAN : StepRevert(ok)
  \/ \E outcome \in GitSyncOutcomes : StepCommit(outcome)
  \/ \E confirmed, ok \in BOOLEAN : StepPublish(confirmed, ok)
  \/ \E skip \in [Range(Registries) -> BOOLEAN], dry_run \in BOOLEAN :
       RunPublishAll(skip, dry_run)
  \/ SkipRegistry
  \/ \E ok \in BOOLEAN : TryRegistry(ok)
  \/ Summary

\* One release or one publish-all, with every outcome of its commands.
SpecXtask == InitGraph /\ [][NextXtask]_vars

\* ============================================================ dashboard
\* run_app of prb-cli (crates/prb-cli/src/main.rs): one task that loops over
\* draw, key input, connection management and the tick.  The awaits of the
\* loop are calls of the same task, so nothing else runs between them; the
\* connect is kept as a step of its own to show the status it sets while it
\* waits.  logs is the length of app.logs, deadlocks that of app.deadlocks;
\* client says whether the client handle is Some.  tick_count is kept modulo
\* the deadlock check rate, a multiple of the heartbeat rate.  The keys that
\* matter are q and p: the others change the tab and the filter only.
HEARTBEAT_TICK_RATE == 10
DEADLOCK_CHECK_TICK_RATE == 50
LogCap == 1000
MaxBackoff == 30
LogLimit == 5

Modes == {"Online", "Offline"}
Keys == {"none", "q", "p"}

\* Readings of last_reconnect_attempt.elapsed(), in seconds.
Elapsed == {0, 1, 3, 15, 29, 30, 60}

\* How many of the logs of a response are not yet in app.logs.
Fresh == {0, LogLimit}

OfflineMode == [kind |-> "OfflineMode", secs |-> 0]
Connected == [kind |-> "Connected", secs |-> 0]
Reconnecting(secs) == [kind |-> "Reconnecting", secs |-> secs]
Disconnected == [kind |-> "Disconnected", secs |-> 0]

Min(a, b) == IF a <= b THEN a ELSE b

\* App::new and the locals of run_app.
AppNew(mode) ==
  [at |-> "draw", mode |-> mode, should_quit |-> FALSE, paused |-> FALSE,
   tick_count |-> 0, logs |-> 2, deadlocks |-> 0,
   connection_status |-> IF mode = "Online" THEN Disconnected ELSE OfflineMode,
   endpoint |-> mode = "Online", client |-> FALSE,
   reconnect_backoff_secs |-> 1, reading |-> 0,
   header |-> [status |-> "", backoff |-> 0, logs |-> 0], rpcs |-> <<>>,
   heartbeat |-> "none"]

\* What ui puts in the header, and how many log lines it has at hand.
Ui(a) ==
  [status |-> CASE a.connection_status.kind = "Connected" -> "CONNECTED"
                [] a.connection_status.kind = "Reconnecting" -> "RECONNECTING"
                [] a.connection_status.kind = "Disconnected" -> "DISCONNECTED"
                [] OTHER -> "OFFLINE",
   backoff |-> a.connection_status.secs,
   logs |-> a.logs]

\* A connect is due: there is an endpoint, no client, and the cool-down is
\* over.
ConnectDue(a, elapsed) ==
  a.endpoint /\ ~a.client /\ elapsed >= a.reconnect_backoff_secs

\* The Ok arm of the connect.
ConnectOk(a) ==
  [a EXCEPT !.client = TRUE, !.connection_status = Connected,
            !.reconnect_backoff_secs = 1, !.logs = @ + 1]

\* An Err arm that doubles the backoff without the cap.
ConnectErrNoCap(a) ==
  [a EXCEPT !.logs = @ + 1, !.reconnect_backoff_secs = @ * 2,
            !.connection_status = Disconnected]

\* The Err arm of the connect.
ConnectErr(a) ==
  [a EXCEPT !.logs = @ + 1,
            !.reconnect_backoff_secs = Min(@ * 2, MaxBackoff),
            !.connection_status = Disconnected]

\* if app.logs.len() > 1000 { app.logs.truncate(1000) }
CapLogs(n) == IF n > LogCap THEN LogCap ELSE n

\* A heartbeat that fetches logs and deadlocks whatever the status call said.
HeartbeatFetchAll(a, status_ok, logs_ok, fresh, deadlocks_ok, found) ==
  LET s == IF status_ok
             THEN [a EXCEPT !.logs = @ + 1, !.connection_status = Connected,
                            !.rpcs = <<"get_node_status">>,
                            !.heartbeat = "ok"]
             ELSE [a EXCEPT !.logs = @ + 1, !.rpcs = <<"get_node_status">>,
                            !.heartbeat = "failed"]
      l == [s EXCEPT !.logs = IF logs_ok THEN @ + fresh ELSE @,
                     !.rpcs = Append(@, "get_recent_logs")]
      d == [l EXCEPT !.deadlocks = IF deadlocks_ok THEN found ELSE @,
                     !.rpcs = Append(@, "get_deadlocks")]
      c == [d EXCEPT !.logs = CapLogs(@)]
  IN IF status_ok THEN c
     ELSE [c EXCEPT !.client = FALSE, !.connection_status = Disconnected]

\* The heartbeat of a tick with a client: get_node_status, then logs and
\* deadlocks unless the status call failed, then the cap on the logs; after
\* a failed status call the client is dropped.
Heartbeat(a, status_ok, logs_ok, fresh, deadlocks_ok, found) ==
  LET s == IF status_ok
             THEN [a EXCEPT !.logs = @ + 1, !.connection_status = Connected,
                            !.rpcs = <<"get_node_status">>,
                            !.heartbeat = "ok"]
             ELSE [a EXCEPT !.logs = @ + 1, !.rpcs = <<"get_node_status">>,
                            !.heartbeat = "failed"]
      l == IF ~status_ok THEN s
           ELSE [s EXCEPT !.logs = IF logs_ok THEN @ + fresh ELSE @,
                          !.rpcs = Append(@, "get_recent_logs")]
      d == IF ~status_ok THEN l
           ELSE [l EXCEPT !.deadlocks = IF deadlocks_ok THEN found ELSE @,
                          !.rpcs = Append(@, "get_deadlocks")]
      c == [d EXCEPT !.logs = CapLogs(@)]
  IN IF status_ok THEN c
     ELSE [c EXCEPT !.client = FALSE, !.connection_status = Disconnected]

\* The heartbeat is due at this tick count.
HeartbeatDue(a) == a.client /\ a.tick_count % HEARTBEAT_TICK_RATE = 0

\* The block under if !app.paused.
TickBlock(a, status_ok, logs_ok, fresh, deadlocks_ok, found) ==
  IF a.paused THEN [a EXCEPT !.rpcs = <<>>, !.heartbeat = "none"]
  ELSE LET t == [a EXCEPT !.tick_count = (@ + 1) % DEADLOCK_CHECK_TICK_RATE,
                          !.rpcs = <<>>, !.heartbeat = "none"]
           h == IF HeartbeatDue(t)
                  THEN Heartbeat(t, status_ok, logs_ok, fresh, deadlocks_ok,
                                 found)
                  ELSE t
       IN IF h.tick_count % DEADLOCK_CHECK_TICK_RATE = 0 /\ h.mode = "Offline"
            THEN [h EXCEPT !.deadlocks = 0]
            ELSE h

AppRest ==
  UNCHANGED <<inner, meta, COUNT, now, refs, last, issued, graph, lk, pc,
              mutex, cargo, run, xtask>>

\* main: App::new(cli.mode), run_app
RunApp(mode) ==
  /\ app = NoApp
  /\ app' = AppNew(mode)
  /\ AppRest

\* terminal.draw(|f| ui(f, &app))
Draw ==
  /\ app.at = "draw"
  /\ app' = [app EXCEPT !.header = Ui(app), !.at = "input"]
  /\ AppRest

\* event::poll and the key, if any.
Input(key) ==
  /\ app.at = "input"
  /\ app' = [app EXCEPT !.should_quit = @ \/ key = "q",
                        !.paused = IF key = "p" THEN ~@ ELSE @,
                        !.at = "connect"]
  /\ AppRest

\* Connection management up to the await of the connect.
ConnectBegin(elapsed) ==
  /\ app.at = "connect"
  /\ ConnectDue(app, elapsed) => app.logs < MaxLogs
  /\ app' = IF ConnectDue(app, elapsed)
              THEN [app EXCEPT
                      !.connection_status =
                         Reconnecting(app.reconnect_backoff_secs),
                      !.reading = elapsed, !.at = "connecting"]
              ELSE [app EXCEPT !.at = "tick"]
  /\ AppRest

\* The connect comes back.
ConnectEnd(ok) ==
  /\ app.at = "connecting"
  /\ app' = [(IF ok THEN ConnectOk(app) ELSE ConnectErr(app))
               EXCEPT !.at = "tick"]
  /\ AppRest

\* The tick, and the test of should_quit.
AppTick(status_ok, logs_ok, fresh, deadlocks_ok, found) ==
  /\ app.at = "tick"
  /\ app.logs < MaxLogs \/ app.paused \/ ~app.client
  /\ app' = [TickBlock(app, status_ok, logs_ok, fresh, deadlocks_ok, found)
               EXCEPT !.at = IF app.should_quit THEN "quit" ELSE "draw"]
  /\ AppRest

NextApp ==
  \/ \E mode \in Modes : RunApp(mode)
  \/ Draw
  \/ \E key \in Keys : Input(key)
  \/ \E elapsed \in Elapsed : ConnectBegin(elapsed)
  \/ \E ok \in BOOLEAN : ConnectEnd(ok)
  \/ \E status_ok, logs_ok, deadlocks_ok \in BOOLEAN, fresh \in Fresh,
        found \in {0, 1} :
       AppTick(status_ok, logs_ok, fresh, deadlocks_ok, found)

\* The dashboard loop, tick by tick.
SpecApp == InitGraph /\ [][NextApp]_vars

\* ------------------------------------------------------ the log buffer alone
\* The blocks of the loop that touch app.logs, taken in any order in which
\* their conditions on the client allow them: when a connect or a heartbeat
\* is due is up to the clock and the tick count.  The loop draws once in
\* each iteration, hence between any two of them.
WatchLogs ==
  /\ app = NoApp
  /\ app' = [AppNew("Online") EXCEPT !.at = "events"]
  /\ AppRest

DrawLogs ==
  /\ app.at = "show"
  /\ app' = [app EXCEPT !.header = Ui(app), !.at = "events"]
  /\ AppRest

Connects(ok) ==
  /\ app.at = "events"
  /\ app.endpoint /\ ~app.client
  /\ app.logs < LogCap + MaxOver
  /\ app' = [(IF ok THEN ConnectOk(app) ELSE ConnectErr(app))
               EXCEPT !.at = "show"]
  /\ AppRest

Heartbeats(status_ok, logs_ok, fresh) ==
  /\ app.at = "events"
  /\ app.client
  /\ app' = [Heartbeat(app, status_ok, logs_ok, fresh, FALSE, 0)
               EXCEPT !.at = "show"]
  /\ AppRest

NextLogs ==
  \/ WatchLogs
  \/ DrawLogs
  \/ \E ok \in BOOLEAN : Connects(ok)
  \/ \E status_ok, logs_ok \in BOOLEAN, fresh \in Fresh :
       Heartbeats(status_ok, logs_ok, fresh)

\* Connects and heartbeats in any order, and the draws between them.
SpecLogs == InitGraph /\ [][NextLogs]_vars

\* ------------------------------------------------ claims on the wait-for graph
\* The nodes reached from the set S along edges of E, S included.
RECURSIVE ReachFrom(_, _)
ReachFrom(E, S) ==
  LET T == S \cup {e[2] : e \in {x \in E : x[1] \in S}}
  IN IF T = S THEN S ELSE ReachFrom(E, T)

\* E has a directed cycle: some edge leads to a node from which its own
\* source is reached again (a self-loop is the case of a single edge).
HasCycle(E) == \E e \in E : e[1] \in ReachFrom(E, {e[2]})

\* The deadlock of the bank example: 1 -> 200 -> 2 -> 100 -> 1.
BankEdges == {<<1, 200>>, <<200, 2>>, <<2, 100>>, <<100, 1>>}

\* The graph the bank example builds, in its insertion order.
BankGraph ==
  AddWait(AddWait(AddWait(AddWait(WaitForGraphNew, 1, 200), 200, 2), 2, 100),
          100, 1)

\* C17: detect_cycle() returns true iff the current edge set has a directed
\* cycle, self-loops included; it returns false on the empty graph and true on
\* the edges 1->200, 200->2, 2->100, 100->1 in whatever order they were added.
C17_DetectIffCycle ==
  /\ last.op = "detect_cycle" => last.ret = HasCycle(Edges(graph))
  /\ last.op = "detect_cycle" /\ graph = WaitForGraphNew => last.ret = FALSE
  /\ last.op = "detect_cycle" /\ Edges(graph) = BankEdges => last.ret = TRUE

\* detect_cycle() has answered on the graph of the bank example.
C17_Witness ==
  /\ last.op = "detect_cycle"
  /\ graph = BankGraph
  /\ last.ret = TRUE

\* C18: on every graph that add_wait and remove_wait calls build,
\* remove_wait(from, to) takes exactly the edge from->to out of the edge set
\* (it changes nothing when the edge is absent), and removing any one edge of
\* the cycle 1->200->2->100->1 leaves a graph on which detect_cycle() is false.
C18_RemoveWait ==
  \A e \in WaitPairs :
    LET after == RemoveWait(graph, e[1], e[2])
    IN /\ Edges(after) = Edges(graph) \ {e}
       /\ e \notin Edges(graph) => after = graph
       /\ Edges(graph) = BankEdges /\ e \in BankEdges => ~DetectCycle(after)

\* An edge of the bank cycle has been removed and three are left.
C18_Witness ==
  /\ last.op = "remove_wait"
  /\ graph = RemoveWait(BankGraph, 2, 100)
  /\ Cardinality(Edges(graph)) = 3

\* p is a cycle of E: consecutive nodes are joined by an edge, the last node
\* has an edge to the first, and no node repeats.
IsCycle(p, E) ==
  /\ Len(p) > 0
  /\ \A i \in 1..(Len(p) - 1) : <<p[i], p[i + 1]>> \in E
  /\ <<p[Len(p)], p[1]>> \in E
  /\ \A i, j \in DOMAIN p : p[i] = p[j] => i = j

\* C19: find_cycle_path() returns a sequence exactly when detect_cycle() is
\* true, the sequence is a cycle of the current graph, and for the cycle
\* 1->200->2->100->1 it has 4 nodes.
C19_PathIsCycle ==
  last.op = "find_cycle_path" =>
    /\ last.ret.some = DetectCycle(graph)
    /\ last.ret.some => IsCycle(last.ret.path, Edges(graph))
    /\ Edges(graph) = BankEdges => last.ret.some /\ Len(last.ret.path) = 4

\* find_cycle_path() has returned a cycle that the search entered from a node
\* outside it.
C19_Witness ==
  /\ last.op = "find_cycle_path"
  /\ last.ret.some
  /\ Len(graph) > 0
  /\ graph[1].node \notin Range(last.ret.path)

\* C20: once detect_cycle() is true, any add_wait leaves it true.
C20_AddKeepsCycle ==
  [][last'.op = "add_wait" /\ DetectCycle(graph) => DetectCycle(graph')]_vars

\* A two-edge acyclic chain has been added next to a cycle it shares no node
\* with, and the cycle is still detected.
C20_Witness ==
  /\ last.op = "add_wait"
  /\ graph = AddWait(AddWait(AddWait(WaitForGraphNew, 1, 1), 100, 2), 2, 200)
  /\ DetectCycle(graph)

\* ------------------------------------------------------ claim on the lock
\* Nothing stands between a waiting call and the lock for good: it can take
\* the lock now, or a call that holds the lock is running its body.
NoDeadlock ==
  \A t \in Threads :
    pc[t].at = "want" =>
      \/ CanLock(lk[pc[t].g], pc[t].op)
      \/ \E u \in Threads : pc[u].at = "in" /\ pc[u].g = pc[t].g

\* A call that holds the lock can return at once, whatever the clock and the
\* lease say, and only calls under way hold the lock.
BodyNeverWaits ==
  /\ \A t \in Threads : pc[t].at = "in" => ENABLED End(t)
  /\ \A g \in Guards :
       /\ lk[g].w # 0 => pc[lk[g].w].at = "in"
       /\ \A t \in lk[g].r : pc[t].at = "in"

\* Every thread that waits for the lock gets it again and again.
FairLock == \A t \in Threads : []<>(pc[t].at # "want")

\* C16: no guard operation blocks: no deadlock is reachable among the calls
\* of read, write, reclaim, grant_lease and try_hire, a call that holds the
\* lock returns without waiting for the lease to expire or for another
\* thread, and when the threads contending for the lock are served fairly
\* every call returns.
C16_NoCallBlocks ==
  /\ [](NoDeadlock /\ BodyNeverWaits)
  /\ FairLock => \A t \in Threads : (pc[t].at # "idle") ~> (pc[t].at = "idle")

\* Three calls contend for the lock of a guard whose lease is running: a
\* reclaim holds it, a read and a grant_lease wait.
C16_Witness ==
  /\ meta[1].kind = "Foreign"
  /\ now < meta[1].expires_at
  /\ \E t, u, v \in Threads :
       /\ pc[t] = [at |-> "in", op |-> "reclaim", g |-> 1]
       /\ pc[u] = [at |-> "want", op |-> "deref", g |-> 1]
       /\ pc[v] = [at |-> "want", op |-> "grant_lease", g |-> 1]

\* C21: on every graph that add_wait and remove_wait calls build and for
\* every pair (a, b), add_wait(a, b) twice gives the graph that add_wait(a, b)
\* once gives, which has the edge a->b and no other new edge, and one
\* remove_wait(a, b) after that leaves no edge a->b.
C21_AddWaitIdempotent ==
  \A e \in WaitPairs :
    LET once == AddWait(graph, e[1], e[2])
        twice == AddWait(once, e[1], e[2])
    IN /\ twice = once
       /\ Edges(once) = Edges(graph) \cup {e}
       /\ e \notin Edges(RemoveWait(twice, e[1], e[2]))

\* add_wait has put an edge into a graph that already had edges.
C21_Witness ==
  /\ last.op = "add_wait"
  /\ graph = AddWait(AddWait(AddWait(WaitForGraphNew, 1, 200), 1, 100), 1, 200)
  /\ Edges(graph) = {<<1, 200>>, <<1, 100>>}

\* The two queries of the graph.
Queries == {"detect_cycle", "find_cycle_path"}

Converging == {<<1, 100>>, <<1, 200>>, <<100, 2>>, <<200, 2>>}

\* C27: detect_cycle() reports no cycle where there is none, in particular
\* none on the converging paths 1->100, 1->200, 100->2, 200->2, where the
\* second branch reaches a node the first has finished; and no node is
\* expanded twice in one search.
C27_TwoMarks ==
  /\ LET x == Scan(graph, 1, {}).expanded
     IN \A i, j \in DOMAIN x : x[i] = x[j] => i = j
  /\ last.op = "detect_cycle" /\ ~HasCycle(Edges(graph)) => last.ret = FALSE
  /\ last.op = "detect_cycle" /\ Edges(graph) = Converging => last.ret = FALSE

\* detect_cycle() has answered false on the converging paths, searched from
\* the node where they part.
C27_Witness ==
  /\ last.op = "detect_cycle"
  /\ last.ret = FALSE
  /\ Edges(graph) = Converging
  /\ graph[1].node = 1
  /\ Scan(graph, 1, {}).expanded = <<1, 100, 2, 200>>

\* C23: while a detect_cycle() is under way the graph is the one its
\* traversal began on, and when it returns its result is the cyclicity of
\* the edge set at that one point; no add_wait or remove_wait of another
\* holder falls in between.
C23_ConsistentSnapshot ==
  [][\A h \in Holders :
       pc[h].at = "in" /\ pc[h].op = "detect_cycle" =>
         /\ graph' = pc[h].began
         /\ pc'[h] = Idle => last'.ret = HasCycle(Edges(pc[h].began))]_vars

\* A detect_cycle() of holder 1 has found the deadlock while holder 2 was
\* waiting to change the graph.
C23_Witness ==
  /\ last = [op |-> "detect_cycle", ret |-> TRUE]
  /\ pc[1] = Idle
  /\ pc[2].at = "want"
  /\ pc[2].op = "remove_wait"
  /\ mutex = 0

C24_FirstFailingLaw ==
  last.op = "enforce_law" =>
    LET failing == {i \in DOMAIN last.laws : ~Holds(last.laws[i], last.value)}
    IN /\ last.ret.ok = (failing = {})
       /\ ~last.ret.ok =>
            \E i \in failing :
              /\ \A j \in failing : i <= j
              /\ last.ret.law = last.laws[i]
       /\ last.after = last.value

\* Two invariants fail and the one declared first is reported; the one
\* declared before both holds.
C24_Witness ==
  /\ last.op = "enforce_law"
  /\ last.value = [value |-> -1, limit |-> 1000]
  /\ last.laws = <<"self.limit < 1000", "self.value >= 0">>
  /\ last.ret = [ok |-> FALSE, law |-> "self.limit < 1000"]

\* ------------------------------------------------------ claims on logistics
\* ---- C25: new(v).give_to_hardware().wait() returns a resource holding v;
\* every future that exists holds its data, and no wait() has hit the
\* "Hardware data stolen!" failure: the binding it returns into holds the
\* resource that was handed over.
C25_RoundTrip ==
  /\ \A v \in Packets :
       Wait(GiveToHardware(RawResourceNew(v)))
         = [panic |-> FALSE, ret |-> RawResourceNew(v)]
  /\ \A s \in Slots :
       cargo[s].kind = "future" =>
         /\ cargo[s].data.some
         /\ ~Wait(cargo[s]).panic
         /\ Wait(cargo[s]).ret.kind = "raw"
  /\ last.op = "wait" =>
       /\ ~last.panic
       /\ last.ret.kind = "raw"
       /\ \E s \in Slots : cargo[s] = last.ret

C25_RoundTrip_Witness ==
  /\ last.op = "wait"
  /\ ~last.panic
  /\ last.ret = RawResourceNew(101)
  /\ cargo[2] = RawResourceNew(101)

\* -------------------------------------------------------- claims on publish
\* The dependencies between crates of the workspace, as edges crate -> dep.
DepEdges(crates) ==
  {e \in (DOMAIN crates) \X (DOMAIN crates) : e[2] \in crates[e[1]].local_deps}

\* The layers that hold crate c.
LayersOf(layers, c) == {k \in DOMAIN layers : c \in Range(layers[k])}

\* ---- C29: when topological_sort returns layers, every crate of the
\* workspace is at exactly one place of exactly one layer, no layer is empty
\* (so there are at most as many layers as crates) and every dependency that
\* is a workspace crate is in a strictly earlier layer; it returns the cycle
\* error, and no layering, exactly when the workspace dependencies have a
\* cycle, a crate that lists itself included.
C29_LayersRespectDeps ==
  run.at # "none" =>
    LET crates == run.crates
        r == run.sorted
    IN /\ r.ok <=> ~HasCycle(DepEdges(crates))
       /\ r.ok =>
            /\ \A c \in DOMAIN crates :
                 Cardinality({p \in (DOMAIN r.layers) \X CrateNames :
                                /\ p[2] \in DOMAIN r.layers[p[1]]
                                /\ r.layers[p[1]][p[2]] = c}) = 1
            /\ \A k \in DOMAIN r.layers :
                 r.layers[k] # <<>> /\ Range(r.layers[k]) \subseteq DOMAIN crates
            /\ Len(r.layers) <= Cardinality(DOMAIN crates)
            /\ \A e \in DepEdges(crates) :
                 \A k \in LayersOf(r.layers, e[1]), m \in LayersOf(r.layers, e[2]) :
                   m < k
       /\ ~r.ok => r.layers = <<>> /\ r.remaining # {} /\ run.at = "err"

\* Crate 1 depends on crate 2 and on the external 3; crate 2 on nothing.
C29_Witness ==
  /\ run.at # "none"
  /\ DOMAIN run.crates = {1, 2}
  /\ run.crates[1].local_deps = {2, 3}
  /\ run.sorted.ok
  /\ run.sorted.layers = <<<<2>>, <<1>>>>

\* ---- C30: a crate is taken for publishing only when every crate of every
\* earlier layer has been published, hence after each of its workspace
\* dependencies; once a crate has failed the run never ends well, no crate
\* of a later layer is ever taken, and a run that has ended did so with the
\* error exactly when a crate failed.
C30_LayerByLayer ==
  (run.at # "none" /\ run.sorted.ok) =>
    LET W == DOMAIN run.crates
        Taken(c) == run.st[c].s # "pending"
        Before(a, b) ==
          \E k \in LayersOf(run.layers, a), m \in LayersOf(run.layers, b) : k < m
    IN /\ \A c \in W : Taken(c) =>
            /\ \A b \in W : Before(b, c) => run.st[b].s = "done"
            /\ \A d \in run.crates[c].local_deps \cap W : run.st[d].s = "done"
       /\ \A c \in W : run.st[c].s = "failed" =>
            /\ run.at # "ok"
            /\ \A b \in W : Before(c, b) => ~Taken(b)
       /\ run.at = "ok" => \A c \in W : run.st[c].s = "done"
       /\ run.at = "err" => \E c \in W : run.st[c].s = "failed"

\* Of the chain 3 -> 2 -> 1, crate 1 was published, crate 2 failed at its
\* third attempt and the run returned the error with crate 3 never taken.
C30_Witness ==
  /\ run.at = "err"
  /\ run.sorted.ok
  /\ ~run.dry_run
  /\ run.layers = <<<<1>>, <<2>>, <<3>>>>
  /\ run.st[1].s = "done"
  /\ run.st[2] = [s |-> "failed", attempts |-> MaxAttempts]
  /\ run.st[3] = Pending

IsNumeric(part) == part # <<>> /\ \A i \in DOMAIN part : IsDigit(part[i])

\* The number a numeric part denotes, without its leading zeros.
RECURSIVE Canon(_)
Canon(part) ==
  IF Len(part) > 1 /\ Head(part) = "0" THEN Canon(Tail(part)) ELSE part

\* What the bump of three numbers is to be.
Expected(M, m, p, bump_type) ==
  CASE bump_type = "Major" -> Format3(Succ(M), <<"0">>, <<"0">>)
    [] bump_type = "Minor" -> Format3(M, Succ(m), <<"0">>)
    [] OTHER -> Format3(M, m, Succ(p))

\* ---- C35 as stated: on three numeric parts M.m.p bump_semver returns
\* (M+1).0.0, M.(m+1).0 or M.m.(p+1), and on every other version it fails.
C35_AsStated ==
  last.op = "bump_semver" =>
    LET parts == SplitDots(last.version, 1, <<>>)
    IN IF Len(parts) = 3 /\ \A i \in 1..3 : IsNumeric(parts[i])
         THEN /\ last.ret.kind = "ok"
              /\ last.ret.version = Expected(Canon(parts[1]), Canon(parts[2]),
                                             Canon(parts[3]), last.bump_type)
         ELSE last.ret.kind = "err"

\* A part the parser takes: digits after an optional '+', within a u32.
IsU32Text(part) ==
  LET digits == IF part # <<>> /\ Head(part) = "+" THEN Tail(part) ELSE part
  IN IsNumeric(digits) /\ ~Exceeds(Canon(digits))

U32Of(part) ==
  Canon(IF Head(part) = "+" THEN Tail(part) ELSE part)

\* ---- C35 as amended: bump_semver fails when the version has not exactly
\* three parts or a part is not a u32 in decimal (digits after an optional
\* '+', at most u32::MAX); otherwise it returns (M+1).0.0, M.(m+1).0 or
\* M.m.(p+1) unless the part to raise is u32::MAX, where it panics in a
\* build with overflow checks and wraps the part to 0 in one without.
C35_BumpSemver ==
  last.op = "bump_semver" =>
    LET parts == SplitDots(last.version, 1, <<>>)
    IN IF Len(parts) = 3 /\ \A i \in 1..3 : IsU32Text(parts[i])
         THEN LET M == U32Of(parts[1])
                  m == U32Of(parts[2])
                  p == U32Of(parts[3])
                  raised == CASE last.bump_type = "Major" -> M
                              [] last.bump_type = "Minor" -> m
                              [] OTHER -> p
              IN IF raised # U32Max
                   THEN /\ last.ret.kind = "ok"
                        /\ last.ret.version = Expected(M, m, p, last.bump_type)
                   ELSE IF last.build = "debug"
                          THEN last.ret.kind = "panic"
                          ELSE /\ last.ret.kind = "ok"
                               /\ last.ret.version # Expected(M, m, p, last.bump_type)
         ELSE last.ret.kind = "err"

\* 07.9.9 bumped at Minor is 7.10.0.
C35_Witness ==
  /\ last.op = "bump_semver"
  /\ last.version = <<"0", "7", ".", "9", ".", "9">>
  /\ last.bump_type = "Minor"
  /\ last.ret.kind = "ok"
  /\ last.ret.version = <<"7", ".", "1", "0", ".", "0">>

\* ------------------------------------------ claims on release and publish-all
\* What a command may run without changing anything outside the build.
Harmless ==
  {"build", "build failed", "test", "test failed",
   "cargo publish --dry-run --allow-dirty"}

\* ---- C32: with dry_run set, a release bumps no version, commits and pushes
\* nothing and reverts nothing, the only cargo publish run is the one with
\* --dry-run, and publish-all tries neither PyPI nor NPM nor JSR.
C32_DryRunChangesNothing ==
  (xtask.cmd # "none" /\ xtask.dry_run) =>
    /\ Range(xtask.log) \subseteq Harmless
    /\ CargoCommand(xtask.dry_run) \in Harmless
    /\ xtask.cmd = "release" => ~xtask.bumped
    /\ xtask.cmd = "publish-all" =>
         Range(xtask.log) \subseteq {"cargo publish --dry-run --allow-dirty"}

\* A dry release that ran to its end, and published with --dry-run only.
C32_Witness ==
  /\ xtask.cmd = "release"
  /\ xtask.dry_run
  /\ xtask.result = "ok"
  /\ xtask.log = <<"build", "test", "cargo publish --dry-run --allow-dirty">>

\* The place of an entry in the order of the workflow.
Rank(what) ==
  CASE what = "bump" -> 1
    [] what \in {"build", "build failed"} -> 2
    [] what \in {"test", "test failed"} -> 3
    [] what \in {"commit", "git checkout"} -> 4
    [] what = "push" -> 5
    [] what = "confirmed" -> 6
    [] OTHER -> 7

Publishing == {"cargo publish", "cargo publish --dry-run --allow-dirty"}

\* The steps run in the order bump, build, test, commit/push, publish;
\* commit, push and publish come after a build and a test that succeeded;
\* a real publish comes after the confirmation; a release that ended well
\* without --skip-publish either published or was declined.
InOrder ==
  /\ \A i, j \in DOMAIN xtask.log :
       i < j => Rank(xtask.log[i]) < Rank(xtask.log[j])
  /\ Range(xtask.log) \cap ({"commit", "push", "confirmed"} \cup Publishing) # {}
       => {"build", "test"} \subseteq Range(xtask.log)
  /\ "cargo publish" \in Range(xtask.log) =>
       "confirmed" \in Range(xtask.log)
  /\ (xtask.result = "ok" /\ "confirmed" \notin Range(xtask.log)) =>
       "cargo publish" \notin Range(xtask.log)

CheckFailed == Range(xtask.log) \cap {"build failed", "test failed"} # {}

\* After a failed build or test the release ends with the error, and nothing
\* is committed, pushed or published.
StopsOnFailure ==
  CheckFailed =>
    /\ xtask.step \in {"revert", "end"}
    /\ xtask.step = "end" => xtask.result = "err"
    /\ Range(xtask.log) \cap ({"commit", "push"} \cup Publishing) = {}

\* ---- C33 as stated: the order of the steps holds, and a real release in
\* which build or test failed ends with the version bump reverted.
C33_AsStated ==
  xtask.cmd = "release" =>
    /\ InOrder
    /\ StopsOnFailure
    /\ (CheckFailed /\ xtask.step = "end" /\ ~xtask.dry_run) => ~xtask.bumped

\* ---- C33 as amended: the order of the steps holds; a release in which
\* build or test failed ends with an error and nothing committed or
\* published; in a real run the bump is reverted exactly when the git
\* checkout succeeded, and the error returned is then that of the build or
\* test; when the checkout fails its own error is returned and the bump
\* stays.
C33_ReleaseOrder ==
  xtask.cmd = "release" =>
    /\ InOrder
    /\ StopsOnFailure
    /\ (CheckFailed /\ xtask.step = "end" /\ ~xtask.dry_run) =>
         /\ "git checkout" \in Range(xtask.log)
         /\ xtask.bumped <=> xtask.err = "git checkout"
         /\ ~xtask.bumped <=> xtask.err \in {"build", "test"}

\* The tests failed in a real run and the bump was reverted.
C33_Witness ==
  /\ xtask.cmd = "release"
  /\ ~xtask.dry_run
  /\ xtask.log = <<"bump", "build", "test failed", "git checkout">>
  /\ xtask.result = "err"
  /\ xtask.err = "test"
  /\ ~xtask.bumped

\* The registries gone past.
Past == {k \in DOMAIN Registries : k < xtask.i}

\* ---- C34: every registry gone past was tried exactly when it is not
\* skipped (by its flag, or by --dry-run for all but Crates.io), whatever
\* the results of the ones before it; the two counters add up to the number
\* of registries tried; publish-all ends with Ok after the last registry.
C34_EveryRegistryTried ==
  xtask.cmd = "publish-all" =>
    /\ \A k \in Past :
         Runs(Registries[k], xtask.dry_run) \in Range(xtask.log)
           <=> /\ ~xtask.skip[Registries[k]]
               /\ Registries[k] = "Crates.io" \/ ~xtask.dry_run
    /\ xtask.success_count + xtask.fail_count = Len(xtask.log)
    /\ xtask.result = "ok" => Past = DOMAIN Registries
    /\ xtask.result \in {"none", "ok"}

\* All four registries were tried although two of them failed.
C34_Witness ==
  /\ xtask.cmd = "publish-all"
  /\ xtask.result = "ok"
  /\ Len(xtask.log) = 4
  /\ xtask.fail_count = 2
  /\ xtask.success_count = 2

\* ------------------------------------------------- claims on the dashboard
\* ---- C36: the reconnect backoff is always within 1..30 seconds; a connect
\* is under way only in online mode, with no client, with the status
\* Reconnecting and after a reading of the elapsed time of at least the
\* backoff; in offline mode no connect is ever under way and the status
\* stays OfflineMode; a failed connect doubles the backoff up to 30 and a
\* successful one sets it to 1.
C36_Backoff ==
  /\ [](app.at # "none" =>
          /\ app.reconnect_backoff_secs \in 1..MaxBackoff
          /\ app.at = "connecting" =>
               /\ app.mode = "Online"
               /\ ~app.client
               /\ app.reading >= app.reconnect_backoff_secs
               /\ app.connection_status =
                    Reconnecting(app.reconnect_backoff_secs)
          /\ app.mode = "Offline" =>
               /\ app.at # "connecting"
               /\ ~app.client
               /\ app.connection_status = OfflineMode)
  /\ [][app.at = "connecting" =>
          IF app'.client
            THEN app'.reconnect_backoff_secs = 1
            ELSE app'.reconnect_backoff_secs =
                   Min(2 * app.reconnect_backoff_secs, MaxBackoff)]_vars

\* A connect under way with the backoff at its cap.
C36_Witness ==
  /\ app.at = "connecting"
  /\ app.reconnect_backoff_secs = MaxBackoff
  /\ app.reading = 60

\* The end of a loop iteration: the tick is over.
EndOfIteration == app.at \in {"draw", "quit"}

\* ---- C37: at the end of every loop iteration the status Connected comes
\* with a client; after a tick whose heartbeat failed there is no client,
\* the status is Disconnected and get_node_status is the only call the tick
\* made; after a heartbeat that succeeded the logs and the deadlocks were
\* asked for.
C37_ConnectedHasClient ==
  EndOfIteration =>
    /\ app.connection_status = Connected => app.client
    /\ app.heartbeat = "failed" =>
         /\ ~app.client
         /\ app.connection_status = Disconnected
         /\ app.rpcs = <<"get_node_status">>
    /\ app.heartbeat = "ok" =>
         /\ app.client
         /\ app.rpcs = <<"get_node_status", "get_recent_logs", "get_deadlocks">>

\* A heartbeat has just failed.
C37_Witness ==
  /\ EndOfIteration
  /\ app.heartbeat = "failed"
  /\ ~app.client
  /\ app.connection_status = Disconnected
  /\ app.header.status = "CONNECTED"

\* ---- C38: while a reconnect attempt is under way the dashboard shows it:
\* no connect comes back before the UI has been drawn with the status
\* Reconnecting and its backoff.
C38_ReconnectingIsShown ==
  [][(app.at = "connecting" /\ app'.at # "connecting") =>
       /\ app.header.status = "RECONNECTING"
       /\ app.header.backoff = app.connection_status.secs]_vars

\* No draw ever shows RECONNECTING.
NeverShowsReconnecting == app.at # "none" => app.header.status # "RECONNECTING"

\* ---- C39: at every draw of the UI app.logs holds at most 1000 entries.
C39_LogsCapped ==
  app.at # "none" => app.header.logs <= LogCap

====
